---- MODULE Spec2Model ----
(***************************************************************************)
(* A model of pointblank's interrogation engine:                           *)
(*   - Interrogator (src/pointblank/_interrogation.py): the per-row        *)
(*     predicate evaluator that adds the boolean column pb_is_good_ to a   *)
(*     table, on the local (pandas / polars through Narwhals) path and on  *)
(*     the Ibis path;                                                      *)
(*   - Validate (src/pointblank/validate.py): the plan of validation steps *)
(*     and interrogate(), which runs them in order.                        *)
(*                                                                         *)
(* A cell of a table is Null or Some(v).  A boolean cell is T, F or Null:  *)
(* polars and Ibis (SQL) evaluate comparisons and the logical operators    *)
(* with three-valued (Kleene) logic, pandas (numpy-backed columns, a       *)
(* missing number is NaN) never produces a null boolean.                   *)
(***************************************************************************)
EXTENDS Integers, Sequences, FiniteSets, TLC

\* ------------------------------------------------------------------ bounds

\* Cell values are 1..MaxVal (and Null); literal operands are drawn from them.
MaxVal == 2
\* Tables have 1..MaxRows rows.
MaxRows == 2
\* A plan has at most MaxSteps validation steps.
MaxSteps == 2
\* The comparison values of a registered step are 1..MaxStepVal.
MaxStepVal == 1
\* The clock advances by 0..MaxTick while a step is processed.
MaxTick == 1
\* interrogate() is called at most MaxRuns times on a plan.
MaxRuns == 2
\* The clock does not go beyond MaxClock.
MaxClock == 1
MaxOperand == 1
MaxLen == 2

Vals == 1..MaxVal

\* ------------------------------------------------------------------ cells

Null == <<>>
Some(v) == <<v>>
T == <<TRUE>>
F == <<FALSE>>
Bool3(b) == IF b THEN T ELSE F

Cells == {Null} \cup {Some(v) : v \in Vals}

\* ------------------------------------------- backend expression semantics

NATIVE_LOCAL == {"pandas", "polars"}
NATIVES == NATIVE_LOCAL \cup {"ibis"}

\* pointblank._constants.IBIS_BACKENDS: the tbl_type values of the Ibis path.
IBIS_BACKENDS == {"duckdb", "mysql", "postgresql", "sqlite"}

\* `p | q` on boolean cells (numpy `|` on two bools; Kleene OR otherwise).
Or3(p, q) ==
    IF p = T \/ q = T THEN T
    ELSE IF p = F /\ q = F THEN F
    ELSE Null

\* `p & q` on boolean cells.
And3(p, q) ==
    IF p = F \/ q = F THEN F
    ELSE IF p = T /\ q = T THEN T
    ELSE Null

\* `~p` on a boolean cell.
Not3(p) == IF p = Null THEN Null ELSE Bool3(p = F)

\* The Python comparison `u <op> v` of two numbers.
CmpHolds(op, u, v) ==
    CASE op = "gt" -> u > v
      [] op = "lt" -> u < v
      [] op = "eq" -> u = v
      [] op = "ne" -> u # v
      [] op = "ge" -> u >= v
      [] op = "le" -> u <= v

\* A comparison of two cells as the backend of a frame evaluates it: with a
\* missing operand pandas compares with NaN (False, and True for !=), polars
\* and Ibis give null.
Compare(native, op, l, r) ==
    IF l = Null \/ r = Null
    THEN IF native = "pandas" THEN Bool3(op = "ne") ELSE Null
    ELSE Bool3(CmpHolds(op, l[1], r[1]))

\* Column expressions: one cell per row.
Lit(n, c) == [i \in 1..n |-> c]
IsNull(s) == [i \in DOMAIN s |-> Bool3(s[i] = Null)]
NotNull(s) == [i \in DOMAIN s |-> Bool3(s[i] # Null)]
Or(s, t) == [i \in DOMAIN s |-> Or3(s[i], t[i])]
And(s, t) == [i \in DOMAIN s |-> And3(s[i], t[i])]
Not(s) == [i \in DOMAIN s |-> Not3(s[i])]
Cmp(native, op, s, t) == [i \in DOMAIN s |-> Compare(native, op, s[i], t[i])]

\* nw.when(c).then(a).otherwise(b) and ibis.ifelse(c, a, b): a where the
\* condition is true, b where it is false or null.
IfElse(c, a, b) == [i \in DOMAIN c |-> IF c[i] = T THEN a[i] ELSE b[i]]

\* `s - t` on number columns: missing when an operand is missing.
Sub(s, t) ==
    [i \in DOMAIN s |->
        IF s[i] = Null \/ t[i] = Null THEN Null ELSE Some(s[i][1] - t[i][1])]

\* `s == b` of a pandas number column with a boolean column: Python compares
\* a number with a bool by value (False == 0, True == 1); NaN equals nothing.
EqNumBool(s, b) ==
    [i \in DOMAIN s |->
        IF s[i] = Null THEN F
        ELSE Bool3(s[i][1] = (IF b[i] = T THEN 1 ELSE 0))]

\* col.str.contains(pattern) / col.re_search(pattern): a pattern is modelled
\* by the set of values it matches; the match of a missing value is missing
\* on polars and Ibis and is not a boolean on pandas (NaN).
Contains(s, pattern) ==
    [i \in DOMAIN s |-> IF s[i] = Null THEN Null ELSE Bool3(s[i][1] \in pattern)]

\* col.is_in(set) / col.isin(set) / col.notin(set)
IsIn(native, s, set) ==
    [i \in DOMAIN s |->
        IF s[i] = Null
        THEN IF native = "pandas" THEN F ELSE Null
        ELSE Bool3(s[i][1] \in set)]

\* ------------------------------------------------------------------ frames

\* A frame: its native kind and its columns, a function from column names to
\* equally long sequences of cells.
Frame(native, cols) == [native |-> native, cols |-> cols]

NRows(tbl) == Len(tbl.cols[CHOOSE c \in DOMAIN tbl.cols : TRUE])

\* DataFrame.with_columns(**new) / Table.mutate(**new): the new columns are
\* evaluated on the frame as it is, then added or replaced by name.
with_columns(tbl, new) ==
    Frame(tbl.native,
          [c \in DOMAIN tbl.cols \cup DOMAIN new |->
              IF c \in DOMAIN new THEN new[c] ELSE tbl.cols[c]])

\* DataFrame.drop(*names) / Table.drop(*names)
drop(tbl, names) ==
    Frame(tbl.native, [c \in DOMAIN tbl.cols \ names |-> tbl.cols[c]])

\* -------------------------------------------------------------- operands

\* pointblank.column.Column: a reference to another column of the table.
Column(name) == [isColumn |-> TRUE, name |-> name, value |-> Null]
\* A literal operand (a Python number).
Literal(v) == [isColumn |-> FALSE, name |-> "", value |-> Some(v)]
\* An argument that was not given (None).
None == [isColumn |-> FALSE, name |-> "", value |-> Null]

\* A _get_compare_expr_nw without the Column case.
get_compare_expr_nw_literal_only(tbl, compare) == Lit(NRows(tbl), compare.value)

\* _get_compare_expr_nw: nw.col(compare.name) for a Column, the value itself
\* otherwise; the expression is evaluated on the frame it is used with.
get_compare_expr_nw(tbl, compare) ==
    IF compare.isColumn
    THEN tbl.cols[compare.name]
    ELSE Lit(NRows(tbl), compare.value)

\* _column_has_null_values: the column's null count is neither None nor 0.
column_has_null_values(table, column) ==
    LET null_count == Cardinality({i \in 1..NRows(table) : table.cols[column][i] = Null})
    IN  null_count # 0

is_pandas_dataframe(tbl) == tbl.native = "pandas"
is_polars_dataframe(tbl) == tbl.native = "polars"

\* ------------------------------------------------------------ Interrogator

\* Interrogator.gt; lt, ge and le are the same code with <, >= and <=.
ordered_comparison(self, op) ==
    LET x == self.x
        n == NRows(x)
        na == Lit(n, Bool3(self.na_pass))
    IN
    IF self.tbl_type \in IBIS_BACKENDS
    THEN
        IF self.compare.isColumn
        THEN
            LET tbl1 == with_columns(x,
                    [pb_is_good_1 |->
                        And(Or(IsNull(x.cols[self.column]),
                               IsNull(x.cols[self.compare.name])), na),
                     pb_is_good_2 |->
                        Cmp(x.native, op, x.cols[self.column], x.cols[self.compare.name])])
                tbl2 == with_columns(tbl1,
                    [pb_is_good_2 |->
                        IfElse(NotNull(tbl1.cols["pb_is_good_2"]),
                               tbl1.cols["pb_is_good_2"], Lit(n, F))])
            IN  drop(with_columns(tbl2,
                        [pb_is_good_ |->
                            Or(tbl2.cols["pb_is_good_1"], tbl2.cols["pb_is_good_2"])]),
                     {"pb_is_good_1", "pb_is_good_2"})
        ELSE
            LET tbl == with_columns(x,
                    [pb_is_good_1 |-> And(IsNull(x.cols[self.column]), na),
                     pb_is_good_2 |->
                        Cmp(x.native, op, x.cols[self.column], Lit(n, self.compare.value))])
            IN  drop(with_columns(tbl,
                        [pb_is_good_ |->
                            Or(tbl.cols["pb_is_good_1"], tbl.cols["pb_is_good_2"])]),
                     {"pb_is_good_1", "pb_is_good_2"})
    ELSE
        LET compare_expr == get_compare_expr_nw(x, self.compare)
            tbl == with_columns(x,
                    [pb_is_good_1 |-> And(IsNull(x.cols[self.column]), na),
                     pb_is_good_2 |->
                        IF self.compare.isColumn
                        THEN And(IsNull(x.cols[self.compare.name]), na)
                        ELSE Lit(n, F),
                     pb_is_good_3 |-> Cmp(x.native, op, x.cols[self.column], compare_expr)])
        IN  drop(with_columns(tbl,
                    [pb_is_good_ |->
                        Or(Or(tbl.cols["pb_is_good_1"], tbl.cols["pb_is_good_2"]),
                           tbl.cols["pb_is_good_3"])]),
                 {"pb_is_good_1", "pb_is_good_2", "pb_is_good_3"})

gt(self) == ordered_comparison(self, "gt")
lt(self) == ordered_comparison(self, "lt")
ge(self) == ordered_comparison(self, "ge")
le(self) == ordered_comparison(self, "le")

\* `k & s` with a Python int on the left of a boolean column: the bitwise
\* AND of k with 0 or 1, read back as a boolean.
IntAnd(k, s) == [i \in DOMAIN s |-> Bool3(k % 2 = 1 /\ s[i] = T)]

\* Interrogator.eq, local path with a Column operand.
eq_local_column(self) ==
    LET x == self.x
        n == NRows(x)
        na == Lit(n, Bool3(self.na_pass))
        tbl1 == with_columns(x,
                [pb_is_good_1 |-> And(IsNull(x.cols[self.column]), na),
                 pb_is_good_2 |-> And(IsNull(x.cols[self.compare.name]), na)])
        tbl2 == with_columns(tbl1,
                [pb_is_good_3 |->
                    And(Not(IsNull(tbl1.cols[self.compare.name])),
                        Not(IsNull(tbl1.cols[self.column])))])
        \* pandas: pb_is_good_4 == 0 & ~pb_is_good_3.is_null() parses as
        \* pb_is_good_4 == (0 & ~pb_is_good_3.is_null())
        tbl3p == with_columns(tbl2,
                [pb_is_good_4 |->
                    Sub(tbl2.cols[self.column], get_compare_expr_nw(tbl2, self.compare))])
        tbl4p == with_columns(tbl3p,
                [pb_is_good_ |->
                    Or(Or(tbl3p.cols["pb_is_good_1"], tbl3p.cols["pb_is_good_2"]),
                       EqNumBool(tbl3p.cols["pb_is_good_4"],
                                 IntAnd(0, Not(IsNull(tbl3p.cols["pb_is_good_3"])))))])
        tbl3o == with_columns(tbl2,
                [pb_is_good_4 |->
                    Cmp(x.native, "eq", tbl2.cols[self.column],
                        get_compare_expr_nw(tbl2, self.compare))])
        tbl4o == with_columns(tbl3o,
                [pb_is_good_ |->
                    Or(Or(tbl3o.cols["pb_is_good_1"], tbl3o.cols["pb_is_good_2"]),
                       And(And(tbl3o.cols["pb_is_good_4"],
                               Not(tbl3o.cols["pb_is_good_1"])),
                           Not(tbl3o.cols["pb_is_good_2"])))])
    IN  drop(IF is_pandas_dataframe(tbl2) THEN tbl4p ELSE tbl4o,
             {"pb_is_good_1", "pb_is_good_2", "pb_is_good_3", "pb_is_good_4"})

\* Interrogator.eq, local path with a literal operand.
eq_local_literal(self) ==
    LET x == self.x
        n == NRows(x)
        na == Lit(n, Bool3(self.na_pass))
        tbl1 == with_columns(x,
                [pb_is_good_1 |-> And(IsNull(x.cols[self.column]), na),
                 pb_is_good_2 |-> Lit(n, F)])
        tbl2 == with_columns(tbl1,
                [pb_is_good_3 |->
                    Cmp(x.native, "eq", tbl1.cols[self.column],
                        get_compare_expr_nw(tbl1, self.compare))])
        tbl3 == with_columns(tbl2,
                [pb_is_good_ |->
                    Or(Or(tbl2.cols["pb_is_good_1"], tbl2.cols["pb_is_good_2"]),
                       tbl2.cols["pb_is_good_3"])])
    IN  drop(tbl3, {"pb_is_good_1", "pb_is_good_2", "pb_is_good_3"})

\* Interrogator.eq: the Ibis path is the code of gt with ==.
eq(self) ==
    IF self.tbl_type \in IBIS_BACKENDS THEN ordered_comparison(self, "eq")
    ELSE IF self.compare.isColumn THEN eq_local_column(self)
    ELSE eq_local_literal(self)

\* Interrogator.ne, Ibis path.
ne_ibis(self) ==
    LET x == self.x
        n == NRows(x)
        na == Lit(n, Bool3(self.na_pass))
    IN
    IF self.compare.isColumn
    THEN ordered_comparison(self, "ne")
    ELSE
        LET tbl == with_columns(x,
                [pb_is_good_1 |-> And(IsNull(x.cols[self.column]), na),
                 pb_is_good_2 |->
                    IfElse(NotNull(x.cols[self.column]),
                           Cmp(x.native, "ne", x.cols[self.column],
                               Lit(n, self.compare.value)),
                           Lit(n, F))])
        IN  drop(with_columns(tbl,
                    [pb_is_good_ |->
                        Or(tbl.cols["pb_is_good_1"], tbl.cols["pb_is_good_2"])]),
                 {"pb_is_good_1", "pb_is_good_2"})

\* Interrogator.ne, local path, neither column has null values.
ne_local_no_nulls(self) ==
    LET x == self.x
    IN  with_columns(x,
            [pb_is_good_ |->
                Cmp(x.native, "ne", x.cols[self.column],
                    get_compare_expr_nw(x, self.compare))])

\* Interrogator.ne, local path, Column operand, CASE 1: only the reference
\* column has null values.  On pandas the left operand is nw.lit(self.column),
\* the column's name: a string, which differs from every value.
ne_local_column_case1(self) ==
    LET x == self.x
        n == NRows(x)
        tbl1 == with_columns(x,
                [pb_is_good_1 |-> IsNull(x.cols[self.column]),
                 pb_is_good_2 |->
                    IF is_pandas_dataframe(x)
                    THEN Lit(n, T)
                    ELSE Cmp(x.native, "ne", x.cols[self.column],
                             x.cols[self.compare.name])])
        tbl2 == IF ~self.na_pass
                THEN with_columns(tbl1,
                        [pb_is_good_2 |->
                            And(tbl1.cols["pb_is_good_2"],
                                Not(tbl1.cols["pb_is_good_1"]))])
                ELSE tbl1
        tbl3 == IF is_polars_dataframe(x)
                THEN with_columns(tbl2,
                        [pb_is_good_2 |->
                            IfElse(IsNull(tbl2.cols["pb_is_good_2"]),
                                   Lit(n, F), tbl2.cols["pb_is_good_2"])])
                ELSE tbl2
        tbl4 == IF is_polars_dataframe(x) /\ self.na_pass
                THEN with_columns(tbl3,
                        [pb_is_good_2 |->
                            Or(tbl3.cols["pb_is_good_1"], tbl3.cols["pb_is_good_2"])])
                ELSE tbl3
    IN  drop(with_columns(tbl4, [pb_is_good_ |-> tbl4.cols["pb_is_good_2"]]),
             {"pb_is_good_1", "pb_is_good_2"})

\* CASE 2: only the comparison column has null values.  On pandas the right
\* operand is nw.lit(self.compare.name), a string.
ne_local_column_case2(self) ==
    LET x == self.x
        n == NRows(x)
        tbl1 == with_columns(x,
                [pb_is_good_1 |->
                    IF is_pandas_dataframe(x)
                    THEN Lit(n, T)
                    ELSE Cmp(x.native, "ne", x.cols[self.column],
                             x.cols[self.compare.name]),
                 pb_is_good_2 |-> IsNull(x.cols[self.compare.name])])
        tbl2 == IF ~self.na_pass
                THEN with_columns(tbl1,
                        [pb_is_good_1 |->
                            And(tbl1.cols["pb_is_good_1"],
                                Not(tbl1.cols["pb_is_good_2"]))])
                ELSE tbl1
        tbl3 == IF is_polars_dataframe(x) /\ self.na_pass
                THEN with_columns(tbl2,
                        [pb_is_good_1 |->
                            Or(tbl2.cols["pb_is_good_1"], tbl2.cols["pb_is_good_2"])])
                ELSE tbl2
    IN  drop(with_columns(tbl3, [pb_is_good_ |-> tbl3.cols["pb_is_good_1"]]),
             {"pb_is_good_1", "pb_is_good_2"})

\* CASE 3: both columns have null values.
ne_local_column_case3(self) ==
    LET x == self.x
        n == NRows(x)
        tbl1 == with_columns(x,
                [pb_is_good_1 |-> IsNull(x.cols[self.column]),
                 pb_is_good_2 |-> IsNull(x.cols[self.compare.name]),
                 pb_is_good_3 |->
                    Cmp(x.native, "ne", x.cols[self.column], x.cols[self.compare.name])])
        tbl2 == IF ~self.na_pass
                THEN with_columns(tbl1,
                        [pb_is_good_3 |->
                            And(And(tbl1.cols["pb_is_good_3"],
                                    Not(tbl1.cols["pb_is_good_1"])),
                                Not(tbl1.cols["pb_is_good_2"]))])
                ELSE tbl1
        tbl3 == IF is_polars_dataframe(x) /\ self.na_pass
                THEN with_columns(tbl2,
                        [pb_is_good_3 |->
                            IfElse(Or(tbl2.cols["pb_is_good_1"], tbl2.cols["pb_is_good_2"]),
                                   Lit(n, T), Lit(n, F))])
                ELSE tbl2
    IN  drop(with_columns(tbl3, [pb_is_good_ |-> tbl3.cols["pb_is_good_3"]]),
             {"pb_is_good_1", "pb_is_good_2", "pb_is_good_3"})

\* Interrogator.ne, local path, literal operand, the reference column has
\* null values.  On pandas the comparison is nw.lit(self.column) !=
\* nw.lit(self.compare): the column's name against the number, always True.
ne_local_literal_nulls(self) ==
    LET x == self.x
        n == NRows(x)
    IN
    IF is_pandas_dataframe(x)
    THEN
        LET tbl1 == with_columns(x,
                [pb_is_good_1 |-> IsNull(x.cols[self.column]),
                 pb_is_good_2 |-> Lit(n, T)])
            tbl2 == IF ~self.na_pass
                    THEN with_columns(tbl1,
                            [pb_is_good_2 |->
                                And(tbl1.cols["pb_is_good_2"],
                                    Not(tbl1.cols["pb_is_good_1"]))])
                    ELSE tbl1
        IN  drop(with_columns(tbl2, [pb_is_good_ |-> tbl2.cols["pb_is_good_2"]]),
                 {"pb_is_good_1", "pb_is_good_2"})
    ELSE
        LET tbl1 == with_columns(x,
                [pb_is_good_1 |-> IsNull(x.cols[self.column]),
                 pb_is_good_2 |-> Lit(n, Bool3(self.na_pass))])
            tbl2 == with_columns(tbl1,
                [pb_is_good_3 |->
                    Cmp(x.native, "ne", tbl1.cols[self.column],
                        Lit(n, self.compare.value))])
            tbl3 == with_columns(tbl2,
                [pb_is_good_ |->
                    Or(And(tbl2.cols["pb_is_good_1"], tbl2.cols["pb_is_good_2"]),
                       And(tbl2.cols["pb_is_good_3"], Not(tbl2.cols["pb_is_good_1"])))])
        IN  drop(tbl3, {"pb_is_good_1", "pb_is_good_2", "pb_is_good_3"})

\* Interrogator.ne
ne(self) ==
    IF self.tbl_type \in IBIS_BACKENDS THEN ne_ibis(self)
    ELSE
        LET ref_col_has_null_vals == column_has_null_values(self.x, self.column)
            cmp_col_has_null_vals ==
                IF self.compare.isColumn
                THEN column_has_null_values(self.x, self.compare.name)
                ELSE FALSE
        IN
        IF ~ref_col_has_null_vals /\ ~cmp_col_has_null_vals
        THEN ne_local_no_nulls(self)
        ELSE IF self.compare.isColumn
        THEN
            IF ref_col_has_null_vals /\ ~cmp_col_has_null_vals
            THEN ne_local_column_case1(self)
            ELSE IF ~ref_col_has_null_vals /\ cmp_col_has_null_vals
            THEN ne_local_column_case2(self)
            ELSE ne_local_column_case3(self)
        ELSE ne_local_literal_nulls(self)

\* The operand of an Ibis expression: self.x[name] for a Column, else
\* ibis.literal(value).
ibis_val(x, operand) ==
    IF operand.isColumn THEN x.cols[operand.name] ELSE Lit(NRows(x), operand.value)

\* A pb_is_good_1 that looks at the value only, not at the bound columns.
ibis_value_null_and_na_pass(self) ==
    And(IsNull(self.x.cols[self.column]), Lit(NRows(self.x), Bool3(self.na_pass)))

\* pb_is_good_1 of the Ibis between / outside with a Column bound: a null in
\* the value or in a bound column, and na_pass.
ibis_any_null_and_na_pass(self) ==
    LET x == self.x
        na == Lit(NRows(x), Bool3(self.na_pass))
        v == IsNull(x.cols[self.column])
    IN
    IF self.low.isColumn /\ self.high.isColumn
    THEN And(Or(Or(v, IsNull(x.cols[self.low.name])), IsNull(x.cols[self.high.name])), na)
    ELSE IF self.low.isColumn
    THEN And(Or(v, IsNull(x.cols[self.low.name])), na)
    ELSE And(Or(v, IsNull(x.cols[self.high.name])), na)

\* Interrogator.between, Ibis path.
between_ibis(self) ==
    LET x == self.x
        n == NRows(x)
        low_val == ibis_val(x, self.low)
        high_val == ibis_val(x, self.high)
        op_low == IF self.inclusive[1] THEN "ge" ELSE "gt"
        op_high == IF self.inclusive[2] THEN "le" ELSE "lt"
    IN
    IF self.low.isColumn \/ self.high.isColumn
    THEN
        LET tbl1 == with_columns(x, [pb_is_good_1 |-> ibis_any_null_and_na_pass(self)])
            tbl2 == with_columns(tbl1,
                    [pb_is_good_2 |-> Cmp(x.native, op_low, tbl1.cols[self.column], low_val)])
            tbl3 == with_columns(tbl2,
                    [pb_is_good_2 |->
                        IfElse(NotNull(tbl2.cols["pb_is_good_2"]),
                               tbl2.cols["pb_is_good_2"], Lit(n, F))])
            tbl4 == with_columns(tbl3,
                    [pb_is_good_3 |-> Cmp(x.native, op_high, tbl3.cols[self.column], high_val)])
            tbl5 == with_columns(tbl4,
                    [pb_is_good_3 |->
                        IfElse(NotNull(tbl4.cols["pb_is_good_3"]),
                               tbl4.cols["pb_is_good_3"], Lit(n, F))])
        IN  drop(with_columns(tbl5,
                    [pb_is_good_ |->
                        Or(tbl5.cols["pb_is_good_1"],
                           And(tbl5.cols["pb_is_good_2"], tbl5.cols["pb_is_good_3"]))]),
                 {"pb_is_good_1", "pb_is_good_2", "pb_is_good_3"})
    ELSE
        LET tbl1 == with_columns(x,
                    [pb_is_good_1 |->
                        And(IsNull(x.cols[self.column]), Lit(n, Bool3(self.na_pass)))])
            tbl2 == with_columns(tbl1,
                    [pb_is_good_2 |-> Cmp(x.native, op_low, tbl1.cols[self.column], low_val)])
            tbl3 == with_columns(tbl2,
                    [pb_is_good_3 |-> Cmp(x.native, op_high, tbl2.cols[self.column], high_val)])
        IN  drop(with_columns(tbl3,
                    [pb_is_good_ |->
                        Or(tbl3.cols["pb_is_good_1"],
                           And(tbl3.cols["pb_is_good_2"], tbl3.cols["pb_is_good_3"]))]),
                 {"pb_is_good_1", "pb_is_good_2", "pb_is_good_3"})

\* Null flags that leave out the flag of the value itself.
local_null_flags_without_value(self) ==
    LET x == self.x
        n == NRows(x)
    IN  with_columns(x,
            [pb_is_good_1 |-> Lit(n, F),
             pb_is_good_2 |->
                IF self.low.isColumn THEN IsNull(x.cols[self.low.name]) ELSE Lit(n, F),
             pb_is_good_3 |->
                IF self.high.isColumn THEN IsNull(x.cols[self.high.name]) ELSE Lit(n, F),
             pb_is_good_4 |-> Lit(n, Bool3(self.na_pass))])

\* The first with_columns of the local between / outside: the null flags of
\* the value and of the bound columns, and na_pass.
local_null_flags(self) ==
    LET x == self.x
        n == NRows(x)
    IN  with_columns(x,
            [pb_is_good_1 |-> IsNull(x.cols[self.column]),
             pb_is_good_2 |->
                IF self.low.isColumn THEN IsNull(x.cols[self.low.name]) ELSE Lit(n, F),
             pb_is_good_3 |->
                IF self.high.isColumn THEN IsNull(x.cols[self.high.name]) ELSE Lit(n, F),
             pb_is_good_4 |-> Lit(n, Bool3(self.na_pass))])

\* Interrogator.between, local path.
between_local(self) ==
    LET x == self.x
        op_low == IF self.inclusive[1] THEN "ge" ELSE "gt"
        op_high == IF self.inclusive[2] THEN "le" ELSE "lt"
        tbl1 == local_null_flags(self)
        tbl2 == with_columns(tbl1,
                [pb_is_good_5 |->
                    Cmp(x.native, op_low, tbl1.cols[self.column],
                        get_compare_expr_nw(tbl1, self.low))])
        tbl3 == with_columns(tbl2,
                [pb_is_good_6 |->
                    Cmp(x.native, op_high, tbl2.cols[self.column],
                        get_compare_expr_nw(tbl2, self.high))])
        tbl4 == with_columns(tbl3,
                [pb_is_good_ |->
                    Or(And(Or(Or(tbl3.cols["pb_is_good_1"], tbl3.cols["pb_is_good_2"]),
                              tbl3.cols["pb_is_good_3"]),
                           tbl3.cols["pb_is_good_4"]),
                       And(tbl3.cols["pb_is_good_5"], tbl3.cols["pb_is_good_6"]))])
    IN  drop(tbl4, {"pb_is_good_1", "pb_is_good_2", "pb_is_good_3",
                    "pb_is_good_4", "pb_is_good_5", "pb_is_good_6"})

\* Interrogator.between
between(self) ==
    IF self.tbl_type \in IBIS_BACKENDS THEN between_ibis(self) ELSE between_local(self)

\* Interrogator.outside, Ibis path.
outside_ibis(self) ==
    LET x == self.x
        n == NRows(x)
        low_val == ibis_val(x, self.low)
        high_val == ibis_val(x, self.high)
        op_low == IF self.inclusive[1] THEN "lt" ELSE "le"
        op_high == IF self.inclusive[2] THEN "gt" ELSE "ge"
    IN
    IF self.low.isColumn \/ self.high.isColumn
    THEN
        LET tbl1 == with_columns(x, [pb_is_good_1 |-> ibis_any_null_and_na_pass(self)])
            tbl2 == with_columns(tbl1,
                    [pb_is_good_2 |-> Cmp(x.native, op_low, tbl1.cols[self.column], low_val)])
            tbl3 == with_columns(tbl2,
                    [pb_is_good_3 |-> Cmp(x.native, op_high, tbl2.cols[self.column], high_val)])
            tbl4 == with_columns(tbl3,
                    [pb_is_good_2 |->
                        IfElse(IsNull(tbl3.cols["pb_is_good_3"]),
                               Lit(n, F), tbl3.cols["pb_is_good_2"])])
            tbl5 == with_columns(tbl4,
                    [pb_is_good_3 |->
                        IfElse(IsNull(tbl4.cols["pb_is_good_2"]),
                               Lit(n, F), tbl4.cols["pb_is_good_3"])])
            tbl6 == with_columns(tbl5,
                    [pb_is_good_2 |->
                        IfElse(IsNull(tbl5.cols["pb_is_good_2"]),
                               Lit(n, F), tbl5.cols["pb_is_good_2"])])
            tbl7 == with_columns(tbl6,
                    [pb_is_good_3 |->
                        IfElse(IsNull(tbl6.cols["pb_is_good_3"]),
                               Lit(n, F), tbl6.cols["pb_is_good_3"])])
        IN  drop(with_columns(tbl7,
                    [pb_is_good_ |->
                        Or(tbl7.cols["pb_is_good_1"],
                           Or(tbl7.cols["pb_is_good_2"], tbl7.cols["pb_is_good_3"]))]),
                 {"pb_is_good_1", "pb_is_good_2", "pb_is_good_3"})
    ELSE
        LET tbl1 == with_columns(x,
                    [pb_is_good_1 |->
                        And(IsNull(x.cols[self.column]), Lit(n, Bool3(self.na_pass)))])
            tbl2 == with_columns(tbl1,
                    [pb_is_good_2 |-> Cmp(x.native, op_low, tbl1.cols[self.column], low_val)])
            tbl3 == with_columns(tbl2,
                    [pb_is_good_3 |-> Cmp(x.native, op_high, tbl2.cols[self.column], high_val)])
        IN  drop(with_columns(tbl3,
                    [pb_is_good_ |->
                        Or(Or(tbl3.cols["pb_is_good_1"], tbl3.cols["pb_is_good_2"]),
                           tbl3.cols["pb_is_good_3"])]),
                 {"pb_is_good_1", "pb_is_good_2", "pb_is_good_3"})

\* Interrogator.outside, local path.
outside_local(self) ==
    LET x == self.x
        n == NRows(x)
        op_low == IF self.inclusive[1] THEN "lt" ELSE "le"
        op_high == IF self.inclusive[2] THEN "gt" ELSE "ge"
        tbl1 == local_null_flags(self)
        tbl2 == with_columns(tbl1,
                [pb_is_good_5 |->
                    Cmp(x.native, op_low, tbl1.cols[self.column],
                        get_compare_expr_nw(tbl1, self.low))])
        tbl3 == with_columns(tbl2,
                [pb_is_good_6 |->
                    Cmp(x.native, op_high, tbl2.cols[self.column],
                        get_compare_expr_nw(tbl2, self.high))])
        tbl4 == with_columns(tbl3,
                [pb_is_good_5 |->
                    IfElse(IsNull(tbl3.cols["pb_is_good_5"]),
                           Lit(n, F), tbl3.cols["pb_is_good_5"]),
                 pb_is_good_6 |->
                    IfElse(IsNull(tbl3.cols["pb_is_good_6"]),
                           Lit(n, F), tbl3.cols["pb_is_good_6"])])
        \* `a & ~b | c & ~d`: & binds tighter than |
        tbl5 == with_columns(tbl4,
                [pb_is_good_ |->
                    Or(And(Or(Or(tbl4.cols["pb_is_good_1"], tbl4.cols["pb_is_good_2"]),
                              tbl4.cols["pb_is_good_3"]),
                           tbl4.cols["pb_is_good_4"]),
                       Or(And(tbl4.cols["pb_is_good_5"], Not(tbl4.cols["pb_is_good_3"])),
                          And(tbl4.cols["pb_is_good_6"], Not(tbl4.cols["pb_is_good_2"]))))])
    IN  drop(tbl5, {"pb_is_good_1", "pb_is_good_2", "pb_is_good_3",
                    "pb_is_good_4", "pb_is_good_5", "pb_is_good_6"})

\* Interrogator.outside
outside(self) ==
    IF self.tbl_type \in IBIS_BACKENDS THEN outside_ibis(self) ELSE outside_local(self)

\* Interrogator.regex
regex(self) ==
    LET x == self.x
        n == NRows(x)
        na == Lit(n, Bool3(self.na_pass))
    IN
    IF self.tbl_type \in IBIS_BACKENDS
    THEN
        LET tbl == with_columns(x,
                [pb_is_good_1 |-> And(IsNull(x.cols[self.column]), na),
                 pb_is_good_2 |-> Contains(x.cols[self.column], self.pattern)])
        IN  drop(with_columns(tbl,
                    [pb_is_good_ |->
                        Or(tbl.cols["pb_is_good_1"], tbl.cols["pb_is_good_2"])]),
                 {"pb_is_good_1", "pb_is_good_2"})
    ELSE
        LET tbl == with_columns(x,
                [pb_is_good_1 |-> And(IsNull(x.cols[self.column]), na),
                 pb_is_good_2 |->
                    IfElse(Not(IsNull(x.cols[self.column])),
                           Contains(x.cols[self.column], self.pattern),
                           Lit(n, F))])
        IN  drop(with_columns(tbl,
                    [pb_is_good_ |->
                        Or(tbl.cols["pb_is_good_1"], tbl.cols["pb_is_good_2"])]),
                 {"pb_is_good_1", "pb_is_good_2"})

\* Interrogator.isin / notin / null / not_null
isin(self) ==
    with_columns(self.x,
        [pb_is_good_ |-> IsIn(self.x.native, self.x.cols[self.column], self.set)])

notin(self) ==
    with_columns(self.x,
        [pb_is_good_ |-> Not(IsIn(self.x.native, self.x.cols[self.column], self.set))])

null(self) ==
    with_columns(self.x, [pb_is_good_ |-> IsNull(self.x.cols[self.column])])

not_null(self) ==
    with_columns(self.x, [pb_is_good_ |-> Not(IsNull(self.x.cols[self.column]))])

\* ------------------------------------------------------------------ state

VARIABLES
    x,              \* the table handed to the Interrogator
    interrogator,   \* the Interrogator instance (its fields but x) and the method called
    result,         \* the table the method returned
    data,           \* Validate.data
    thresholds,     \* Validate.thresholds
    validation_info,\* Validate.validation_info: the steps (_ValidationInfo)
    time_start,     \* Validate.time_start
    time_end,       \* Validate.time_end
    clock,          \* datetime.datetime.now()
    pc,             \* where the caller of the plan is: "idle", "running", "returned",
                    \* "raised"
    pos,            \* the step the loop of interrogate() is at
    runs,           \* the number of calls of interrogate()
    calls,          \* the transforms and executors the running interrogate() called
    answer,         \* what the last call returned when it was an accessor, else null
    comparator,     \* the Comparator instance
    compared,       \* the last call on Comparator and how it ended
    scan,           \* the DataScan instance
    report          \* the last call of DataScan.get_tabular_report and how it ended

interrogatorVars == <<x, interrogator, result>>
standaloneVars == <<comparator, compared, scan, report>>
validateVars ==
    <<data, thresholds, validation_info, time_start, time_end, clock, pc, pos, runs, calls,
      answer>>
vars == <<interrogatorVars, validateVars, standaloneVars>>

\* A Comparator operand: None, a number or a list of numbers.
NoOperand == [kind |-> "none", v |-> <<>>]
Scalar(k) == [kind |-> "scalar", v |-> <<k>>]
ListOf(l) == [kind |-> "list", v |-> l]

\* No Comparator was made and no call on one has ended.
NotConstructed ==
    [made |-> FALSE, x |-> NoOperand, compare |-> NoOperand, low |-> NoOperand,
     high |-> NoOperand]
NoCall == [op |-> "none", args |-> <<>>, raised |-> "", value |-> <<>>]

\* No DataScan was made and no report was asked for.
NotScanned == [made |-> FALSE, tbl_type |-> "", tbl_category |-> "", columns |-> <<>>]
NoReport == [called |-> FALSE, raised |-> "", rows |-> <<>>]

\* Neither Comparator nor DataScan is used.
NoStandalone ==
    /\ comparator = NotConstructed
    /\ compared = NoCall
    /\ scan = NotScanned
    /\ report = NoReport

\* The tables: the tested column "a", the operand columns "b" and "c" when
\* present, or one more column the comparison does not read.
ColumnSets == {{"a"}, {"a", "b"}, {"a", "b", "c"}, {"a", "pb_is_good_1"}, {"a", "pb_is_good_"}}

ColumnsOver(names) ==
    UNION {[names -> [1..n -> Cells]] : n \in 1..MaxRows}

Tables ==
    {Frame(native, cols) : native \in NATIVES,
                           cols \in UNION {ColumnsOver(names) : names \in ColumnSets}}

NoFrame == Frame("none", <<>>)

\* The dataclass defaults of Interrogator.
Defaults ==
    [method |-> "none", column |-> "", compare |-> None, set |-> {}, pattern |-> {},
     low |-> None, high |-> None, inclusive |-> <<FALSE, FALSE>>, na_pass |-> FALSE,
     tbl_type |-> "local"]

\* The tbl_type the caller passes for a table.
TblType(tbl) == IF tbl.native = "ibis" THEN "duckdb" ELSE "local"

\* The instance as the methods see it (self.x and the other fields).
Self(tbl, fields) == [fields EXCEPT !.method = "none"] @@ [x |-> tbl]

Operands(tbl, name) ==
    {Literal(v) : v \in Vals} \cup (IF name \in DOMAIN tbl.cols THEN {Column(name)} ELSE {})

\* Thresholds(warn, stop, notify): each level is unset (Null), an absolute
\* count of failing test units (an int) or a fraction of them (a float).
Thresholds(warn, stop, notify) == [warn |-> warn, stop |-> stop, notify |-> notify]
Count(c) == Some([kind |-> "count", num |-> c, den |-> 1])
Fraction(num, den) == Some([kind |-> "fraction", num |-> num, den |-> den])

\* Thresholds(): no level is set.
NoThresholds == [warn |-> Null, stop |-> Null, notify |-> Null]

\* _normalize_thresholds_creation: None gives Thresholds().
normalize_thresholds_creation(thresholds_arg) ==
    IF thresholds_arg = Null THEN NoThresholds ELSE thresholds_arg[1]

\* No plan: the Interrogator is used on its own.
NoPlan ==
    /\ data = NoFrame
    /\ thresholds = NoThresholds
    /\ validation_info = <<>>
    /\ time_start = Null
    /\ time_end = Null
    /\ clock = 0
    /\ pc = "idle"
    /\ pos = 0
    /\ runs = 0
    /\ calls = <<>>
    /\ answer = Null

InitInterrogator ==
    /\ x \in Tables
    /\ interrogator = Defaults
    /\ result = NoFrame
    /\ NoPlan
    /\ NoStandalone

\* Interrogator(x, column, compare, na_pass, tbl_type).<method>()
CompareOne(method) ==
    /\ interrogator.method = "none"
    /\ \E compare \in Operands(x, "b"), na_pass \in BOOLEAN :
        LET fields == [Defaults EXCEPT !.method = method, !.column = "a",
                           !.compare = compare, !.na_pass = na_pass,
                           !.tbl_type = TblType(x)]
            self == Self(x, fields)
        IN  /\ interrogator' = fields
            /\ result' = CASE method = "gt" -> gt(self)
                           [] method = "lt" -> lt(self)
                           [] method = "eq" -> eq(self)
                           [] method = "ne" -> ne(self)
                           [] method = "ge" -> ge(self)
                           [] method = "le" -> le(self)
    /\ UNCHANGED <<x, validateVars, standaloneVars>>

Gt == CompareOne("gt")
Lt == CompareOne("lt")
Eq == CompareOne("eq")
Ne == CompareOne("ne")
Ge == CompareOne("ge")
Le == CompareOne("le")

\* Interrogator(x, column, low, high, inclusive, na_pass, tbl_type).<method>()
CompareTwo(method) ==
    /\ interrogator.method = "none"
    /\ \E low \in Operands(x, "b"), high \in Operands(x, "c"),
          inclusive \in BOOLEAN \X BOOLEAN, na_pass \in BOOLEAN :
        LET fields == [Defaults EXCEPT !.method = method, !.column = "a",
                           !.low = low, !.high = high, !.inclusive = inclusive,
                           !.na_pass = na_pass, !.tbl_type = TblType(x)]
            self == Self(x, fields)
        IN  /\ interrogator' = fields
            /\ result' = IF method = "between" THEN between(self) ELSE outside(self)
    /\ UNCHANGED <<x, validateVars, standaloneVars>>

Between == CompareTwo("between")
Outside == CompareTwo("outside")

\* Interrogator(x, column, pattern, na_pass, tbl_type).regex()
Regex ==
    /\ interrogator.method = "none"
    /\ \E pattern \in SUBSET Vals, na_pass \in BOOLEAN :
        LET fields == [Defaults EXCEPT !.method = "regex", !.column = "a",
                           !.pattern = pattern, !.na_pass = na_pass,
                           !.tbl_type = TblType(x)]
        IN  /\ interrogator' = fields
            /\ result' = regex(Self(x, fields))
    /\ UNCHANGED <<x, validateVars, standaloneVars>>

\* Interrogator(x, column, set, tbl_type).isin() / .notin()
CompareSet(method) ==
    /\ interrogator.method = "none"
    /\ \E set \in SUBSET Vals :
        LET fields == [Defaults EXCEPT !.method = method, !.column = "a",
                           !.set = set, !.tbl_type = TblType(x)]
        IN  /\ interrogator' = fields
            /\ result' = IF method = "isin" THEN isin(Self(x, fields))
                         ELSE notin(Self(x, fields))
    /\ UNCHANGED <<x, validateVars, standaloneVars>>

IsInSet == CompareSet("isin")
NotInSet == CompareSet("notin")

\* Interrogator(x, column, tbl_type).null() / .not_null()
NullCheck(method) ==
    /\ interrogator.method = "none"
    /\ LET fields == [Defaults EXCEPT !.method = method, !.column = "a",
                          !.tbl_type = TblType(x)]
       IN  /\ interrogator' = fields
           /\ result' = IF method = "null" THEN null(Self(x, fields))
                        ELSE not_null(Self(x, fields))
    /\ UNCHANGED <<x, validateVars, standaloneVars>>

IsNullCheck == NullCheck("null")
NotNullCheck == NullCheck("not_null")

NextInterrogator ==
    \/ Gt \/ Lt \/ Eq \/ Ne \/ Ge \/ Le
    \/ Between \/ Outside
    \/ Regex
    \/ IsInSet \/ NotInSet
    \/ IsNullCheck \/ NotNullCheck

SpecInterrogator == InitInterrogator /\ [][NextInterrogator]_vars

\* ---------------------------------------------------------------- Validate

\* DataFrame.filter(mask): the rows whose mask is true, in order.
filter(tbl, mask) ==
    LET keep(s) ==
            LET kept[i \in 0..Len(s)] ==
                    IF i = 0 THEN <<>>
                    ELSE IF mask[i] = T THEN Append(kept[i - 1], s[i]) ELSE kept[i - 1]
            IN  kept[Len(s)]
    IN  Frame(tbl.native, [c \in DOMAIN tbl.cols |-> keep(tbl.cols[c])])

\* DataFrame.rename({old: new})
rename(tbl, old, new) ==
    Frame(tbl.native,
          [c \in (DOMAIN tbl.cols \ {old}) \cup {new} |->
              IF c = new THEN tbl.cols[old] ELSE tbl.cols[c]])

\* The transforms passed as pre=: dfn.drop_nulls(), the rows without a null.
drop_nulls(tbl) ==
    filter(tbl, [k \in 1..NRows(tbl) |->
                    Bool3(\A c \in DOMAIN tbl.cols : tbl.cols[c][k] # Null)])

call(fn, tbl) == IF fn = "drop_nulls" THEN drop_nulls(tbl) ELSE tbl

\* A callable passed as pre=, with what inspect reports of it: its name, the
\* parameters of its signature and the source lines it was defined on, as a
\* sequence of tokens (<<>>: inspect.getsourcelines raises OSError).
Callable(kind, name, parameters, source) ==
    [kind |-> kind, name |-> name, parameters |-> parameters, source |-> source,
     fn |-> "drop_nulls"]

\* pre=None
NoPre == [kind |-> "none", name |-> "", parameters |-> {}, source |-> <<>>, fn |-> ""]

\* .col_vals_gt(column="a", value=1, pre=lambda <param>: <param>.drop_nulls())
LambdaInline(param) ==
    Callable("lambda", "<lambda>", {param},
             <<".col_vals_gt(", "column=", ",", "value=", ",",
               "pre=", "lambda", param, ":", "body", ")">>)

\* f = lambda dfn: dfn.drop_nulls(), then pre=f
LambdaAssigned ==
    Callable("lambda", "<lambda>", {"dfn"}, <<"f", "=", "lambda", "dfn", ":", "body">>)

\* a lambda typed at the interactive prompt: it has no source file
LambdaNoSource == Callable("lambda", "<lambda>", {"dfn"}, <<>>)

\* def f(dfn): return dfn.drop_nulls(), then pre=f
NamedFunction ==
    Callable("function", "f", {"dfn"},
             <<"def", "f", "(", "dfn", ")", ":", "return", "body">>)

Pres ==
    {NoPre, LambdaInline("dfn"), LambdaInline("df"), LambdaAssigned, LambdaNoSource,
     NamedFunction}

\* str.find(tok, start): the first place at or after start, 0 when there is none.
Find(source, tok, start) ==
    LET places == {i \in start..Len(source) : source[i] = tok}
    IN  IF places = {} THEN 0 ELSE CHOOSE i \in places : \A j \in places : i <= j

\* _extract_pre_argument: the text after "pre=" up to the next ",".
extract_pre_argument(source) ==
    LET pre_start == Find(source, "pre=", 1)
    IN  IF pre_start = 0 THEN source
        ELSE LET found == Find(source, ",", pre_start)
                 pre_end == IF found = 0 THEN Len(source) + 1 ELSE found
             IN  SubSeq(source, pre_start + 1, pre_end - 1)

\* _get_callable_source: the pre= argument found in the source of the
\* callable, or its __name__ when the source cannot be read.
get_callable_source(fn) ==
    IF fn.source = <<>> THEN <<fn.name>> ELSE extract_pre_argument(fn.source)

\* _pre_processing_funcs_to_str
pre_processing_funcs_to_str(pre) == get_callable_source(pre)

\* re.match(r"^lambda", pre_text) is not None
is_lambda(pre_text) == pre_text # <<>> /\ pre_text[1] = "lambda"

\* The pre-processing stage of interrogate(): whether the transform is called.
pre_is_called(validation) ==
    /\ validation.pre # NoPre
    /\ IF is_lambda(pre_processing_funcs_to_str(validation.pre))
       THEN "dfn" \in validation.pre.parameters
       ELSE validation.pre.kind = "str"

\* The pre-processing stage of interrogate(): the table of the step.
pre_processing(validation, df) ==
    LET df_step == df
    IN  IF pre_is_called(validation) THEN call(validation.pre.fn, df_step) ELSE df_step

\* pointblank._constants.TYPE_METHOD_MAP and COMPARE_TYPE_MAP
TYPE_METHOD_MAP ==
    [col_vals_gt |-> "gt", col_vals_lt |-> "lt", col_vals_eq |-> "eq",
     col_vals_ne |-> "ne", col_vals_ge |-> "ge", col_vals_le |-> "le",
     col_vals_between |-> "between", col_vals_outside |-> "outside",
     col_vals_in_set |-> "in_set", col_vals_not_in_set |-> "not_in_set"]

COMPARE_TYPE_MAP ==
    [gt |-> "COMPARE_ONE", lt |-> "COMPARE_ONE", eq |-> "COMPARE_ONE",
     ne |-> "COMPARE_ONE", ge |-> "COMPARE_ONE", le |-> "COMPARE_ONE",
     between |-> "COMPARE_TWO", outside |-> "COMPARE_TWO",
     in_set |-> "COMPARE_SET", not_in_set |-> "COMPARE_SET"]

ROW_BASED_VALIDATION_TYPES == DOMAIN TYPE_METHOD_MAP

\* NumberOfTestUnits(df, column).get_test_units(): the number of rows.
get_test_units(df, column) == NRows(df)

\* NumberOfTestUnits(df, column).get_test_units(tbl_type) of _interrogation.py:
\* the number of rows for "pandas", "polars" and the Ibis backends, and None
\* for any other tbl_type (no branch returns).
get_test_units_of(df, column, tbl_type) ==
    IF tbl_type = "pandas" \/ tbl_type = "polars" THEN Some(NRows(df))
    ELSE IF tbl_type \in IBIS_BACKENDS THEN Some(NRows(df))
    ELSE Null

\* The tbl_type values the executors of _interrogation.py accept: "local"
\* (their default) and the Ibis backends.
EXECUTOR_TBL_TYPES == {"local"} \cup IBIS_BACKENDS

\* _column_test_prep(df, column, allowed_types): the executors raise when
\* the table has no column of that name (ColumnNotFound), before any predicate
\* is evaluated.
column_test_prep_raises(df, column) == column \notin DOMAIN df.cols

\* ColValsCompareOne(...).get_test_results()
ColValsCompareOne(df, column, value, na_pass, comparison) ==
    LET self == Self(df, [Defaults EXCEPT !.column = column, !.compare = Literal(value),
                                          !.na_pass = na_pass])
    IN  CASE comparison = "gt" -> gt(self)
          [] comparison = "lt" -> lt(self)
          [] comparison = "eq" -> eq(self)
          [] comparison = "ne" -> ne(self)
          [] comparison = "ge" -> ge(self)
          [] comparison = "le" -> le(self)

\* ColValsCompareTwo(...).get_test_results()
ColValsCompareTwo(df, column, value1, value2, inclusive, na_pass, comparison) ==
    LET self == Self(df, [Defaults EXCEPT !.column = column, !.low = Literal(value1),
                                          !.high = Literal(value2),
                                          !.inclusive = inclusive, !.na_pass = na_pass])
    IN  IF comparison = "between" THEN between(self) ELSE outside(self)

\* ColValsCompareSet(...).get_test_results()
ColValsCompareSet(df, column, values, inside) ==
    LET self == Self(df, [Defaults EXCEPT !.column = column,
                                          !.set = {values[k] : k \in DOMAIN values}])
    IN  IF inside THEN isin(self) ELSE notin(self)

\* The dispatch of interrogate() on the compare type of the step.
get_test_results(validation, df_step) ==
    LET comparison == TYPE_METHOD_MAP[validation.assertion_type]
        compare_type == COMPARE_TYPE_MAP[comparison]
        value == validation.values
    IN  CASE compare_type = "COMPARE_ONE" ->
                ColValsCompareOne(df_step, validation.column, value[1],
                                  validation.na_pass = T, comparison)
          [] compare_type = "COMPARE_TWO" ->
                ColValsCompareTwo(df_step, validation.column, value[1], value[2],
                                  validation.inclusive[1], validation.na_pass = T,
                                  comparison)
          [] compare_type = "COMPARE_SET" ->
                ColValsCompareSet(df_step, validation.column, value,
                                  comparison = "in_set")

\* list.count(c)
count(results_list, c) == Cardinality({k \in DOMAIN results_list : results_list[k] = c})

\* _convert_abs_count_to_fraction: value / test_units, 0 when there are no
\* test units.
convert_abs_count_to_fraction(value, test_units) ==
    IF test_units = 0 THEN [num |-> 0, den |-> 1] ELSE [num |-> value, den |-> test_units]

\* Thresholds._threshold_result: the level is set and the failing test units
\* reach it, as a count or as a fraction.
threshold_result(threshold, fraction_failing, test_units, level) ==
    IF threshold[level] = Null THEN FALSE
    ELSE LET bound == threshold[level][1]
         IN  IF bound.kind = "count"
             THEN (fraction_failing.num * test_units) \div fraction_failing.den >= bound.num
             ELSE fraction_failing.num * bound.den >= bound.num * fraction_failing.den

\* A loop over the levels that asks for the warn level each time.
level_result_warn_only(threshold, f_failed, n, level) ==
    threshold_result(threshold, f_failed, n, "warn")

\* interrogate(), the loop over the levels: the flag of one level, from the
\* fraction of failing test units and the number of test units of the step.
level_result(threshold, f_failed, n, level) ==
    threshold_result(threshold, f_failed, n, level)

\* An extract of the rows that passed.
get_extract_of_passed(results_tbl) ==
    drop(filter(results_tbl, results_tbl.cols["pb_is_good_"]), {"pb_is_good_"})

\* interrogate(), the extract of a row-based step: the rows of the results
\* table with pb_is_good_ == False, without that column.
get_extract(results_tbl) ==
    drop(filter(results_tbl, Cmp(results_tbl.native, "eq", results_tbl.cols["pb_is_good_"],
                                 Lit(NRows(results_tbl), F))),
         {"pb_is_good_"})

\* interrogate(), the results of an active step: the counts, the fractions,
\* the threshold levels, the checked table, the extract and the times.
store_results(validation, results_tbl, start_time, end_time) ==
    LET results_list == results_tbl.cols["pb_is_good_"]
        n == Len(results_list)
        n_passed == count(results_list, T)
        n_failed == count(results_list, F)
        f_failed == convert_abs_count_to_fraction(n_failed, n)
        threshold == validation.thresholds
    IN  [validation EXCEPT
            !.all_passed = Some(\A k \in DOMAIN results_list : results_list[k] = T),
            !.n = Some(n),
            !.n_passed = Some(n_passed),
            !.n_failed = Some(n_failed),
            !.f_passed = Some(convert_abs_count_to_fraction(n_passed, n)),
            !.f_failed = Some(f_failed),
            !.warn = Some(level_result(threshold, f_failed, n, "warn")),
            !.stop = Some(level_result(threshold, f_failed, n, "stop")),
            !.notify = Some(level_result(threshold, f_failed, n, "notify")),
            !.tbl_checked = Some(results_tbl),
            !.extract =
                IF validation.assertion_type \in ROW_BASED_VALIDATION_TYPES
                THEN Some(get_extract(results_tbl))
                ELSE @,
            !.proc_duration_s = Some(end_time - start_time),
            !.time_processed = Some(end_time)]

\* interrogate(), an active step on the table of the step: the test units
\* are counted, the executor is run, the results are stored.
evaluate_on(validation, df_step, start_time, end_time) ==
    store_results([validation EXCEPT
                      !.n = Some(get_test_units(df_step, validation.column))],
                  get_test_results(validation, df_step), start_time, end_time)

\* One pass of the loop of interrogate() over an active step.
evaluate(validation, df, start_time, end_time) ==
    evaluate_on(validation, pre_processing(validation, df), start_time, end_time)

\* A loop that does not skip the inactive steps (on a table without the
\* column of the step, only the test units are counted).
interrogate_step_ignoring_active(validation, df, start_time, end_time) ==
    IF validation.column \in DOMAIN pre_processing(validation, df).cols
    THEN evaluate(validation, df, start_time, end_time)
    ELSE [validation EXCEPT
            !.n = Some(get_test_units(pre_processing(validation, df), validation.column))]

\* A loop that adds the passing test units to those of the run before.
interrogate_step_adding_up(validation, df, start_time, end_time) ==
    IF ~validation.active
    THEN [validation EXCEPT !.proc_duration_s = Some(end_time - start_time),
                            !.time_processed = Some(end_time)]
    ELSE [evaluate(validation, df, start_time, end_time) EXCEPT
            !.n_passed = IF validation.n_passed = Null THEN @
                         ELSE Some(@[1] + validation.n_passed[1])]

\* One pass of the loop of interrogate(): an inactive step gets its time of
\* processing and nothing else.
interrogate_step(validation, df, start_time, end_time) ==
    IF ~validation.active
    THEN [validation EXCEPT !.proc_duration_s = Some(end_time - start_time),
                            !.time_processed = Some(end_time)]
    ELSE evaluate(validation, df, start_time, end_time)

\* Whether the pass of the loop over the step ends in an error: the step is
\* active and its executor raises on the table of the step.
step_raises(validation, df) ==
    /\ validation.active
    /\ column_test_prep_raises(pre_processing(validation, df), validation.column)

\* The pass of the loop over a step whose executor raises: the test units
\* were counted and stored before the executor was constructed.
interrogate_step_raising(validation, df) ==
    [validation EXCEPT
        !.n = Some(get_test_units(pre_processing(validation, df), validation.column))]

\* What one pass of the loop calls: the transform, then the executor.
step_calls(validation) ==
    IF ~validation.active THEN <<>>
    ELSE (IF pre_is_called(validation)
          THEN <<[op |-> "pre", i |-> validation.i]>> ELSE <<>>)
         \o <<[op |-> "executor", i |-> validation.i]>>

\* The tables a plan is made for: pandas and polars frames with the column "a".
DataTables ==
    {Frame(native, cols) : native \in NATIVE_LOCAL, cols \in ColumnsOver({"a"})}

StepVals == 1..MaxStepVal

\* The thresholds= arguments: of Validate(...), None or warn at 1 failing test
\* unit and stop at half of them; of a registration that gives its own, warn
\* at MaxRows failing test units and notify at half of them.
PlanThresholdArgs == {Null, Some(Thresholds(Count(1), Fraction(1, 2), Null))}
StepThresholdArgs == {Some(Thresholds(Count(MaxRows), Null, Fraction(1, 2)))}

\* A registration that takes the thresholds of the plan whatever it is given.
step_thresholds_of_plan(thresholds_arg) == thresholds

\* The thresholds of a step: those of the plan when the registration gives
\* none, else its own.
step_thresholds(thresholds_arg) ==
    IF thresholds_arg = Null THEN thresholds
    ELSE normalize_thresholds_creation(thresholds_arg)

\* _ValidationInfo(...): the fields that are not given default to None.
ValidationInfo(assertion_type, column, values, inclusive, na_pass, pre, threshold, active) ==
    [i |-> 0, assertion_type |-> assertion_type, column |-> column, values |-> values,
     inclusive |-> inclusive, na_pass |-> na_pass, pre |-> pre,
     thresholds |-> threshold, active |-> active,
     all_passed |-> Null, n |-> Null, n_passed |-> Null, n_failed |-> Null,
     f_passed |-> Null, f_failed |-> Null, warn |-> Null, stop |-> Null,
     notify |-> Null, tbl_checked |-> Null, extract |-> Null,
     time_processed |-> Null, proc_duration_s |-> Null]

\* The result fields of a step.
RESULT_FIELDS ==
    {"all_passed", "n", "n_passed", "n_failed", "f_passed", "f_failed", "warn", "stop",
     "notify", "tbl_checked", "extract", "time_processed", "proc_duration_s"}

InitValidate ==
    /\ x = NoFrame
    /\ interrogator = Defaults
    /\ result = NoFrame
    /\ data \in DataTables
    /\ \E thresholds_arg \in PlanThresholdArgs :
          thresholds = normalize_thresholds_creation(thresholds_arg)
    /\ validation_info = <<>>
    /\ time_start = Null
    /\ time_end = Null
    /\ clock = 0
    /\ pc = "idle"
    /\ pos = 0
    /\ runs = 0
    /\ calls = <<>>
    /\ answer = Null
    /\ NoStandalone

\* An _add_validation that numbers the steps from 0.
add_validation_from_zero(val_info) ==
    /\ pc # "running"
    /\ Len(validation_info) < MaxSteps
    /\ validation_info' =
          Append(validation_info, [val_info EXCEPT !.i = Len(validation_info)])
    /\ pc' = "idle"
    /\ answer' = Null
    /\ UNCHANGED <<standaloneVars, interrogatorVars, data, thresholds, time_start, time_end, clock,
                   pos, runs, calls>>

\* Validate._add_validation: the step gets the next index and is appended.
add_validation(val_info) ==
    /\ pc # "running"
    /\ Len(validation_info) < MaxSteps
    /\ validation_info' =
          Append(validation_info, [val_info EXCEPT !.i = Len(validation_info) + 1])
    /\ pc' = "idle"
    /\ answer' = Null
    /\ UNCHANGED <<standaloneVars, interrogatorVars, data, thresholds, time_start, time_end, clock,
                   pos, runs, calls>>

\* Validate.col_vals_gt .. col_vals_le: one code, with the assertion type
\* taken from the name of the method.
col_vals_compare_one(assertion_type, na_passes, pres, threshold_args, actives) ==
    \E value \in StepVals, na_pass \in na_passes, pre \in pres,
       thresholds_arg \in threshold_args, active \in actives :
        add_validation(ValidationInfo(assertion_type, "a", <<value>>, Null,
                                      Bool3(na_pass), pre,
                                      step_thresholds(thresholds_arg), active))

\* The optional arguments are drawn one method at a time, the others being
\* left at their defaults: pre= and active= with col_vals_gt, na_pass= with
\* col_vals_ge; col_vals_lt is the method called with thresholds= of its own.
col_vals_gt == col_vals_compare_one("col_vals_gt", {FALSE}, Pres, {Null}, BOOLEAN)
col_vals_lt == col_vals_compare_one("col_vals_lt", {FALSE}, {NoPre}, StepThresholdArgs, {TRUE})
col_vals_eq == col_vals_compare_one("col_vals_eq", {FALSE}, {NoPre}, {Null}, {TRUE})
col_vals_ne == col_vals_compare_one("col_vals_ne", {FALSE}, {NoPre}, {Null}, {TRUE})
col_vals_ge == col_vals_compare_one("col_vals_ge", BOOLEAN, {NoPre}, {Null}, {TRUE})
col_vals_le == col_vals_compare_one("col_vals_le", {FALSE}, {NoPre}, {Null}, {TRUE})

\* Validate.col_vals_between / col_vals_outside, inclusive=(True, True)
col_vals_compare_two(assertion_type) ==
    \E left \in StepVals, right \in StepVals :
        add_validation(ValidationInfo(assertion_type, "a", <<left, right>>,
                                      Some(<<TRUE, TRUE>>), F, NoPre,
                                      step_thresholds(Null), TRUE))

col_vals_between == col_vals_compare_two("col_vals_between")
col_vals_outside == col_vals_compare_two("col_vals_outside")

\* Validate.col_vals_in_set / col_vals_not_in_set
col_vals_compare_set(assertion_type) ==
    \E set \in [1..1 -> StepVals] :
        add_validation(ValidationInfo(assertion_type, "a", set, Null, Null, NoPre,
                                      step_thresholds(Null), TRUE))

col_vals_in_set == col_vals_compare_set("col_vals_in_set")
col_vals_not_in_set == col_vals_compare_set("col_vals_not_in_set")

\* Validate.interrogate, up to the loop: time_start is set.
InterrogateBegin ==
    /\ pc # "running"
    /\ runs < MaxRuns
    /\ time_start' = Some(clock)
    /\ pc' = "running"
    /\ pos' = 1
    /\ runs' = runs + 1
    /\ calls' = <<>>
    /\ answer' = Null
    /\ UNCHANGED <<standaloneVars, interrogatorVars, data, thresholds, validation_info, time_end, clock>>

\* The owner of the table alters it between two calls on the plan, which
\* holds a reference to it: the tested column a is renamed to b.
TableChanged ==
    /\ pc # "running"
    /\ "a" \in DOMAIN data.cols
    /\ data' = rename(data, "a", "b")
    /\ pc' = "idle"
    /\ answer' = Null
    /\ UNCHANGED <<standaloneVars, interrogatorVars, thresholds, validation_info, time_start, time_end,
                   clock, pos, runs, calls>>

\* A loop that keeps the table of the step as the table of the plan.
InterrogateStepKeepingTable ==
    /\ pc = "running"
    /\ pos <= Len(validation_info)
    /\ ~step_raises(validation_info[pos], data)
    /\ \E tick \in 0..MaxTick :
        LET df == data
            validation == validation_info[pos]
            start_time == clock
            end_time == clock + tick
        IN  /\ end_time <= MaxClock
            /\ validation_info' =
                  [validation_info EXCEPT
                      ![pos] = interrogate_step(validation, df, start_time, end_time)]
            /\ clock' = end_time
            /\ calls' = calls \o step_calls(validation)
            /\ data' = IF validation.active THEN pre_processing(validation, df) ELSE df
    /\ pos' = pos + 1
    /\ answer' = Null
    /\ UNCHANGED <<standaloneVars, interrogatorVars, thresholds, time_start, time_end, pc, runs>>

\* Validate.interrogate, one pass of the loop: start_time and end_time are
\* read from the clock, the step is skipped or evaluated on data.
InterrogateStep ==
    /\ pc = "running"
    /\ pos <= Len(validation_info)
    /\ ~step_raises(validation_info[pos], data)
    /\ \E tick \in 0..MaxTick :
        LET df == data
            validation == validation_info[pos]
            start_time == clock
            end_time == clock + tick
        IN  /\ end_time <= MaxClock
            /\ validation_info' =
                  [validation_info EXCEPT
                      ![pos] = interrogate_step(validation, df, start_time, end_time)]
            /\ clock' = end_time
            /\ calls' = calls \o step_calls(validation)
    /\ pos' = pos + 1
    /\ answer' = Null
    /\ UNCHANGED <<standaloneVars, interrogatorVars, data, thresholds, time_start, time_end, pc, runs>>

\* Validate.interrogate, a pass of the loop in which the executor raises: the
\* error leaves interrogate(), nothing after the count of the test units is
\* stored and the loop does not go on.
InterrogateStepRaises ==
    /\ pc = "running"
    /\ pos <= Len(validation_info)
    /\ step_raises(validation_info[pos], data)
    /\ LET df == data
           validation == validation_info[pos]
       IN  /\ validation_info' =
                 [validation_info EXCEPT ![pos] = interrogate_step_raising(validation, df)]
           /\ calls' = calls \o step_calls(validation)
    /\ pc' = "raised"
    /\ answer' = Null
    /\ UNCHANGED <<standaloneVars, interrogatorVars, data, thresholds, time_start, time_end, clock,
                   pos, runs>>

\* Validate.interrogate, after the loop: time_end is set and the plan returned.
InterrogateEnd ==
    /\ pc = "running"
    /\ pos > Len(validation_info)
    /\ time_end' = Some(clock)
    /\ pc' = "returned"
    /\ answer' = Null
    /\ UNCHANGED <<standaloneVars, interrogatorVars, data, thresholds, validation_info, time_start,
                   clock, pos, runs, calls>>

\* The accessors and the field of the steps each one reads.
ACCESSORS ==
    [n |-> "n", n_passed |-> "n_passed", n_failed |-> "n_failed",
     f_passed |-> "f_passed", f_failed |-> "f_failed",
     warn |-> "warn", stop |-> "stop", notify |-> "notify",
     get_data_extracts |-> "extract"]

\* The argument i of an accessor: None, an int or a list of ints.
NoArg == [kind |-> "none", v |-> <<>>]
IntArg(k) == [kind |-> "int", v |-> <<k>>]
ListArg(l) == [kind |-> "list", v |-> l]
AccessorArgs ==
    {NoArg} \cup {IntArg(k) : k \in 1..MaxSteps}
           \cup {ListArg([j \in 1..MaxSteps |-> MaxSteps + 1 - j])}

\* A _get_validation_dict that gives every step whatever is asked for.
get_validation_dict_of_all(i, attr) ==
    [key \in {validation_info[j].i : j \in DOMAIN validation_info} |->
        LET last == CHOOSE j \in DOMAIN validation_info :
                        /\ validation_info[j].i = key
                        /\ \A m \in DOMAIN validation_info :
                                validation_info[m].i = key => m <= j
        IN  validation_info[last][attr]]

\* Validate._get_validation_dict: an int is made a list of one; the dict maps
\* validation.i to the attribute, for every step (i is None) or for the steps
\* whose index is in the list; a later step of the same index would replace
\* an earlier one.
get_validation_dict(i, attr) ==
    LET i_list == i.v
        taken == {j \in DOMAIN validation_info :
                    i = NoArg \/ \E m \in DOMAIN i_list : i_list[m] = validation_info[j].i}
    IN  [key \in {validation_info[j].i : j \in taken} |->
            LET last == CHOOSE j \in taken :
                            /\ validation_info[j].i = key
                            /\ \A m \in taken : validation_info[m].i = key => m <= j
            IN  validation_info[last][attr]]

\* Validate.n, n_passed, n_failed, f_passed, f_failed, warn, stop, notify and
\* get_data_extracts: each returns _get_validation_dict(i, <its field>).  A
\* call that follows another accessor call is drawn as a repetition of it:
\* the plan is as it was before the first, so any other call gives what it
\* gives there.
Query ==
    /\ pc # "running"
    /\ \E name \in DOMAIN ACCESSORS, i \in AccessorArgs :
          /\ answer # Null => (name = answer[1].accessor /\ i = answer[1].i)
          /\ answer' = Some([accessor |-> name, i |-> i,
                              value |-> get_validation_dict(i, ACCESSORS[name])])
    /\ UNCHANGED <<standaloneVars, interrogatorVars, data, thresholds, validation_info, time_start,
                   time_end, clock, pc, pos, runs, calls>>

NextValidate ==
    \/ col_vals_gt \/ col_vals_lt \/ col_vals_eq \/ col_vals_ne \/ col_vals_ge
    \/ col_vals_le \/ col_vals_between \/ col_vals_outside
    \/ col_vals_in_set \/ col_vals_not_in_set
    \/ TableChanged
    \/ InterrogateBegin \/ InterrogateStep \/ InterrogateStepRaises \/ InterrogateEnd

SpecValidate == InitValidate /\ [][NextValidate]_vars

\* A caller that registers steps with col_vals_ge and col_vals_lt, calls
\* interrogate() and reads the results through the accessors.
NextAccessors ==
    \/ col_vals_ge \/ col_vals_lt
    \/ InterrogateBegin \/ InterrogateStep \/ InterrogateEnd
    \/ Query

SpecAccessors == InitValidate /\ [][NextAccessors]_vars

\* pointblank._constants.VALIDATION_REPORT_FIELDS: the fields of a step that a
\* report entry holds, those of them that the steps here carry.
VALIDATION_REPORT_FIELDS ==
    <<"i", "assertion_type", "column", "values", "inclusive", "na_pass", "pre",
      "thresholds", "active", "all_passed", "n", "n_passed", "n_failed", "f_passed",
      "f_failed", "warn", "stop", "notify", "tbl_checked", "extract",
      "time_processed", "proc_duration_s">>

\* The elements of a list.
Elements(list) == {list[m] : m \in DOMAIN list}

\* The use_fields= and exclude_fields= arguments: None or a list of field names.
UseFieldsArgs == {Null, Some(<<"n", "i">>), Some(<<"pre", "i", "pre">>)}
ExcludeFieldsArgs == {Null, Some(<<"pre", "tbl_checked">>)}

\* get_json_report: use_fields= and exclude_fields= are both given.
get_json_report_raises(use_fields, exclude_fields) ==
    use_fields # Null /\ exclude_fields # Null

\* A get_json_report that puts every report field in every entry.
get_json_report_of_all_fields(use_fields, exclude_fields) ==
    [k \in DOMAIN validation_info |->
        [field \in Elements(VALIDATION_REPORT_FIELDS) |-> validation_info[k][field]]]

\* Validate.get_json_report, the list that is serialised: one entry per step,
\* "pre" as the text of the transform when it is among the fields, the entry
\* cut down to the fields.
get_json_report(use_fields, exclude_fields) ==
    LET given == IF use_fields = Null THEN VALIDATION_REPORT_FIELDS ELSE use_fields[1]
        fields == IF exclude_fields = Null THEN given
                  ELSE SelectSeq(given, LAMBDA field : field \notin Elements(exclude_fields[1]))
    IN  [k \in DOMAIN validation_info |->
            LET report_entry ==
                    [field \in Elements(VALIDATION_REPORT_FIELDS) |->
                        IF field = "pre" /\ "pre" \in Elements(fields)
                                         /\ validation_info[k].pre # NoPre
                        THEN pre_processing_funcs_to_str(validation_info[k].pre)
                        ELSE validation_info[k][field]]
            IN  [field \in Elements(fields) |-> report_entry[field]]]

\* Validate.get_json_report(use_fields, exclude_fields): the error when both
\* lists are given, else the report.  A call that follows another call is
\* drawn as a repetition of it, the plan being as it was before the first.
GetJsonReport ==
    /\ pc # "running"
    /\ \E use_fields \in UseFieldsArgs, exclude_fields \in ExcludeFieldsArgs :
          /\ answer # Null => (/\ answer[1].accessor = "get_json_report"
                                /\ use_fields = answer[1].use_fields
                                /\ exclude_fields = answer[1].exclude_fields)
          /\ answer' =
                Some([accessor |-> "get_json_report",
                      use_fields |-> use_fields, exclude_fields |-> exclude_fields,
                      raised |-> get_json_report_raises(use_fields, exclude_fields),
                      value |-> IF get_json_report_raises(use_fields, exclude_fields)
                                THEN <<>>
                                ELSE get_json_report(use_fields, exclude_fields)])
    /\ UNCHANGED <<standaloneVars, interrogatorVars, data, thresholds, validation_info, time_start,
                   time_end, clock, pc, pos, runs, calls>>

\* An all_passed() that is content with one step that passed.
any_passed ==
    \E k \in DOMAIN validation_info : validation_info[k].all_passed = Some(TRUE)

\* Validate.all_passed: all() over the all_passed of the steps, None counting
\* as false.
all_passed ==
    \A k \in DOMAIN validation_info : validation_info[k].all_passed = Some(TRUE)

\* Validate.all_passed()
AllPassed ==
    /\ pc # "running"
    /\ answer # Null => answer[1].accessor = "all_passed"
    /\ answer' = Some([accessor |-> "all_passed", value |-> all_passed])
    /\ UNCHANGED <<standaloneVars, interrogatorVars, data, thresholds, validation_info, time_start,
                   time_end, clock, pc, pos, runs, calls>>

\* A caller that registers steps with col_vals_gt, calls interrogate() and
\* asks for the report or for all_passed().
NextReport ==
    \/ col_vals_gt
    \/ InterrogateBegin \/ InterrogateStep \/ InterrogateEnd
    \/ GetJsonReport
    \/ AllPassed

SpecReport == InitValidate /\ [][NextReport]_vars

\* -------------------------------------------------------------- Comparator

\* The numbers and the lists of numbers handed to Comparator.
Numbers == 0..MaxOperand
Lists(lengths) == UNION {[1..len -> Numbers] : len \in lengths}
XArgs == {Scalar(k) : k \in Numbers} \cup {ListOf(l) : l \in Lists(0..MaxLen)}
OperandArgs ==
    {NoOperand} \cup {Scalar(k) : k \in Numbers} \cup {ListOf(l) : l \in Lists(1..MaxLen)}
BoundArgs == {Scalar(k) : k \in Numbers} \cup {ListOf(l) : l \in Lists({MaxLen})}

\* An _ensure_list that takes a list of any length.
ensure_list_of_any_length(value, length) ==
    [raised |-> "",
     value |-> IF value.kind # "list" THEN ListOf([m \in 1..length |-> value.v[1]])
               ELSE value]

\* Comparator._ensure_list(value, length, name): a scalar is repeated length
\* times, a list of another length is an error.
ensure_list(value, length) ==
    IF value.kind # "list"
    THEN [raised |-> "", value |-> ListOf([m \in 1..length |-> value.v[1]])]
    ELSE IF Len(value.v) # length
         THEN [raised |-> "ValueError", value |-> value]
         ELSE [raised |-> "", value |-> value]

\* Comparator.__post_init__: x is made a list, then compare, low and high, in
\* this order and each when it is given, are made lists of the length of x.
post_init(x_arg, compare_arg, low_arg, high_arg) ==
    LET self_x == IF x_arg.kind # "list" THEN ListOf(<<x_arg.v[1]>>) ELSE x_arg
        ensured(value) ==
            IF value = NoOperand THEN [raised |-> "", value |-> value]
            ELSE ensure_list(value, Len(self_x.v))
        compare == ensured(compare_arg)
        low == ensured(low_arg)
        high == ensured(high_arg)
    IN  [raised |-> IF compare.raised # "" THEN compare.raised
                    ELSE IF low.raised # "" THEN low.raised
                    ELSE high.raised,
         self |-> [made |-> TRUE, x |-> self_x, compare |-> compare.value,
                   low |-> low.value, high |-> high.value]]

\* i > j and the like on two numbers.
compare_numbers(op, i, j) ==
    CASE op = "gt" -> i > j
      [] op = "lt" -> i < j
      [] op = "eq" -> i = j
      [] op = "ne" -> i # j
      [] op = "ge" -> i >= j
      [] op = "le" -> i <= j

\* min(len(a), len(b)), the length of zip(a, b)
Shorter(a, b) == IF Len(a) <= Len(b) THEN Len(a) ELSE Len(b)

\* Comparator.gt, lt, eq, ne, ge, le: [i <op> j for i, j in zip(self.x,
\* self.compare)]; zip() of None is a TypeError.
compare_zip(self, op) ==
    IF self.compare = NoOperand THEN [raised |-> "TypeError", value |-> <<>>]
    ELSE [raised |-> "",
          value |-> [m \in 1..Shorter(self.x.v, self.compare.v) |->
                        compare_numbers(op, self.x.v[m], self.compare.v[m])]]

\* A number is ordered against a number only: i < [..] and i < None are
\* TypeErrors.
Ordered(bound) == bound.kind = "scalar"

\* Comparator.between(low, high): [low <= i <= high for i in self.x], on the
\* arguments of the method; i <= high is evaluated when low <= i is true.
between_list(self, low, high) ==
    LET raises(i) == \/ ~Ordered(low)
                     \/ (low.v[1] <= i /\ ~Ordered(high))
    IN  IF \E m \in DOMAIN self.x.v : raises(self.x.v[m])
        THEN [raised |-> "TypeError", value |-> <<>>]
        ELSE [raised |-> "",
              value |-> [m \in DOMAIN self.x.v |->
                            low.v[1] <= self.x.v[m] /\ self.x.v[m] <= high.v[1]]]

\* Comparator.outside(): [i < self.low or i > self.high for i in self.x];
\* i > self.high is evaluated when i < self.low is false.
outside_list(self) ==
    LET raises(i) == \/ ~Ordered(self.low)
                     \/ (~(i < self.low.v[1]) /\ ~Ordered(self.high))
    IN  IF \E m \in DOMAIN self.x.v : raises(self.x.v[m])
        THEN [raised |-> "TypeError", value |-> <<>>]
        ELSE [raised |-> "",
              value |-> [m \in DOMAIN self.x.v |->
                            self.x.v[m] < self.low.v[1] \/ self.x.v[m] > self.high.v[1]]]

InitComparator ==
    /\ x = NoFrame
    /\ interrogator = Defaults
    /\ result = NoFrame
    /\ NoPlan
    /\ NoStandalone

\* Comparator(x, compare, low, high)
Construct ==
    /\ ~comparator.made
    /\ compared = NoCall
    /\ \E x_arg \in XArgs, compare_arg, low_arg, high_arg \in OperandArgs :
          LET made == post_init(x_arg, compare_arg, low_arg, high_arg)
          IN  /\ comparator' = IF made.raised = "" THEN made.self ELSE comparator
              /\ compared' = [op |-> "Comparator",
                               args |-> <<x_arg, compare_arg, low_arg, high_arg>>,
                               raised |-> made.raised, value |-> <<>>]
    /\ UNCHANGED <<interrogatorVars, validateVars, scan, report>>

\* A call of a method on the Comparator; a call that follows another call is
\* drawn as a repetition of it, the Comparator being as it was before.
ComparatorCall(op, args, outcome) ==
    /\ comparator.made
    /\ compared.op # "Comparator" => (compared.op = op /\ compared.args = args)
    /\ compared' = [op |-> op, args |-> args, raised |-> outcome.raised,
                     value |-> outcome.value]
    /\ UNCHANGED <<interrogatorVars, validateVars, comparator, scan, report>>

Comparator_gt == ComparatorCall("gt", <<>>, compare_zip(comparator, "gt"))
Comparator_lt == ComparatorCall("lt", <<>>, compare_zip(comparator, "lt"))
Comparator_eq == ComparatorCall("eq", <<>>, compare_zip(comparator, "eq"))
Comparator_ne == ComparatorCall("ne", <<>>, compare_zip(comparator, "ne"))
Comparator_ge == ComparatorCall("ge", <<>>, compare_zip(comparator, "ge"))
Comparator_le == ComparatorCall("le", <<>>, compare_zip(comparator, "le"))

Comparator_between ==
    \E low, high \in BoundArgs :
        ComparatorCall("between", <<low, high>>, between_list(comparator, low, high))

Comparator_outside == ComparatorCall("outside", <<>>, outside_list(comparator))

NextComparator ==
    \/ Construct
    \/ Comparator_gt \/ Comparator_lt \/ Comparator_eq
    \/ Comparator_ne \/ Comparator_ge \/ Comparator_le
    \/ Comparator_between \/ Comparator_outside

SpecComparator == InitComparator /\ [][NextComparator]_vars

\* ---------------------------------------------------------------- DataScan

\* The kinds of column of a scanned table and the text of their dtype: the
\* Narwhals dtype of a pandas or polars column, the Ibis dtype of an Ibis one.
SCAN_KINDS == {"int", "string", "datetime", "bool"}
SCAN_NATIVES == NATIVE_LOCAL \cup {"duckdb"}
dtype_str(native, kind) ==
    IF native \in NATIVE_LOCAL
    THEN [int |-> "Int64", string |-> "String", datetime |-> "Datetime", bool |-> "Boolean"][kind]
    ELSE [int |-> "int64", string |-> "string", datetime |-> "timestamp", bool |-> "boolean"][kind]

\* `token in dtype.lower()` for the tokens the profile looks for.
dtype_has(dtype, token) ==
    token \in [Int64 |-> {"int"}, String |-> {"string"}, Datetime |-> {"date"},
                Boolean |-> {}, int64 |-> {"int"}, string |-> {"string"},
                timestamp |-> {"timestamp"}, boolean |-> {}][dtype]

\* The tables handed to DataScan: one or two columns of 1..MaxRows values
\* without nulls (dates, numbers and lengths are numbers 0..MaxOperand).
ScanColumns(n) == [name : {""}, kind : SCAN_KINDS, values : [1..n -> Numbers]]
ScanTables ==
    {[native |-> native,
      columns |-> [idx \in DOMAIN columns |->
                      [columns[idx] EXCEPT !.name = <<"a", "b">>[idx]]]] :
        native \in SCAN_NATIVES,
        columns \in UNION {[1..width -> ScanColumns(n)] : width \in 1..2, n \in 1..MaxRows}}

\* Series.min() and Series.max()
series_min(values) == CHOOSE v \in Elements(values) : \A w \in Elements(values) : v <= w
series_max(values) == CHOOSE v \in Elements(values) : \A w \in Elements(values) : v >= w

\* The profile of a column: its name, its type and its statistics, a mapping
\* under the key of its kind ("none" when the profile has no statistics).
col_profile(column, dtype, idx, stat_kind, statistics) ==
    [column_name |-> column.name, column_type |-> dtype, column_number |-> idx,
     stat_kind |-> stat_kind, statistics |-> statistics]

\* A _generate_profile_df that files the datetime statistics as the Ibis path
\* does.
generate_profile_df_with_date_keys(tbl) ==
    [idx \in DOMAIN tbl.columns |->
        LET column == tbl.columns[idx]
            dtype == dtype_str(tbl.native, column.kind)
        IN  IF dtype_has(dtype, "int") \/ dtype_has(dtype, "float")
            THEN col_profile(column, dtype, idx, "numerical",
                             [min |-> series_min(column.values),
                              max |-> series_max(column.values)])
            ELSE IF dtype_has(dtype, "string") \/ dtype_has(dtype, "categorical")
            THEN col_profile(column, dtype, idx, "string_lengths",
                             [min |-> series_min(column.values),
                              max |-> series_max(column.values)])
            ELSE IF dtype_has(dtype, "date")
            THEN col_profile(column, dtype, idx, "datetime",
                             [min_date |-> series_min(column.values),
                              max_date |-> series_max(column.values)])
            ELSE col_profile(column, dtype, idx, "none", <<>>)]

\* DataScan._generate_profile_df, the columns of the profile: numerical, then
\* string, then date and datetime columns get statistics (of which the minimum
\* and the maximum are kept here).
generate_profile_df(tbl) ==
    [idx \in DOMAIN tbl.columns |->
        LET column == tbl.columns[idx]
            dtype == dtype_str(tbl.native, column.kind)
        IN  IF dtype_has(dtype, "int") \/ dtype_has(dtype, "float")
            THEN col_profile(column, dtype, idx, "numerical",
                             [min |-> series_min(column.values),
                              max |-> series_max(column.values)])
            ELSE IF dtype_has(dtype, "string") \/ dtype_has(dtype, "categorical")
            THEN col_profile(column, dtype, idx, "string_lengths",
                             [min |-> series_min(column.values),
                              max |-> series_max(column.values)])
            ELSE IF dtype_has(dtype, "date")
            THEN col_profile(column, dtype, idx, "datetime",
                             [min |-> series_min(column.values),
                              max |-> series_max(column.values)])
            ELSE col_profile(column, dtype, idx, "none", <<>>)]

\* DataScan._generate_profile_ibis, the columns of the profile.
generate_profile_ibis(tbl) ==
    [idx \in DOMAIN tbl.columns |->
        LET column == tbl.columns[idx]
            dtype_str_ == dtype_str(tbl.native, column.kind)
        IN  IF dtype_has(dtype_str_, "int") \/ dtype_has(dtype_str_, "float")
            THEN col_profile(column, dtype_str_, idx, "numerical",
                             [min |-> series_min(column.values),
                              max |-> series_max(column.values)])
            ELSE IF dtype_has(dtype_str_, "string") \/ dtype_has(dtype_str_, "char")
            THEN col_profile(column, dtype_str_, idx, "string_lengths",
                             [min |-> series_min(column.values),
                              max |-> series_max(column.values)])
            ELSE IF dtype_has(dtype_str_, "date") \/ dtype_has(dtype_str_, "timestamp")
            THEN col_profile(column, dtype_str_, idx, "datetime",
                             [min_date |-> series_min(column.values),
                              max_date |-> series_max(column.values)])
            ELSE col_profile(column, dtype_str_, idx, "none", <<>>)]

\* _process_datetime_column_data: column_data["statistics"]["datetime"] is read
\* at "min_date" and "max_date"; a key that is not there is a KeyError.
process_datetime_column_data_raises(column_data) ==
    ~({"min_date", "max_date"} \subseteq DOMAIN column_data.statistics)

\* The row of the report for a column: its number and name, and for a
\* datetime column the two dates.
report_row(column_data) ==
    [column_number |-> column_data.column_number,
     column_name |-> column_data.column_name,
     dates |-> IF column_data.stat_kind = "datetime"
               THEN <<column_data.statistics.min_date, column_data.statistics.max_date>>
               ELSE <<>>]

InitScan ==
    /\ x = NoFrame
    /\ interrogator = Defaults
    /\ result = NoFrame
    /\ NoPlan
    /\ NoStandalone

\* DataScan(data).__post_init__: the table category is "ibis" for an Ibis
\* table and "dataframe" otherwise, and the profile is generated for it.
Scan ==
    /\ ~scan.made
    /\ \E tbl \in ScanTables :
          LET tbl_type == tbl.native
              ibis_tbl == tbl.native \notin NATIVE_LOCAL
              tbl_category == IF ibis_tbl THEN "ibis" ELSE "dataframe"
          IN  scan' = [made |-> TRUE, tbl_type |-> tbl_type, tbl_category |-> tbl_category,
                       columns |-> IF tbl_category = "dataframe"
                                   THEN generate_profile_df(tbl)
                                   ELSE generate_profile_ibis(tbl)]
    /\ UNCHANGED <<interrogatorVars, validateVars, comparator, compared, report>>

\* DataScan.get_tabular_report(), up to the list of the rows: a column with
\* numerical or string statistics, else one with datetime statistics, else any
\* other column.
GetTabularReport ==
    /\ scan.made
    /\ LET datetime_columns ==
               {idx \in DOMAIN scan.columns : scan.columns[idx].stat_kind = "datetime"}
       IN  IF \E idx \in datetime_columns :
                    process_datetime_column_data_raises(scan.columns[idx])
           THEN report' = [called |-> TRUE, raised |-> "KeyError", rows |-> <<>>]
           ELSE report' = [called |-> TRUE, raised |-> "",
                           rows |-> [idx \in DOMAIN scan.columns |->
                                        report_row(scan.columns[idx])]]
    /\ UNCHANGED <<interrogatorVars, validateVars, comparator, compared, scan>>

NextScan == Scan \/ GetTabularReport

SpecScan == InitScan /\ [][NextScan]_vars

\* ------------------------------------------------- Interrogator: properties

COMPARE_ONE_METHODS == {"gt", "lt", "eq", "ne", "ge", "le"}
COMPARE_TWO_METHODS == {"between", "outside"}

Called == interrogator.method # "none"
RowsOfX == 1..NRows(x)
IsGood == result.cols["pb_is_good_"]
\* A row is good when its pb_is_good_ is True.
Good(r) == IsGood[r] = T
Value(r) == x.cols[interrogator.column][r]
OperandCell(operand, r) ==
    IF operand.isColumn THEN x.cols[operand.name][r] ELSE operand.value

\* The comparison of the call on the (non-null) cells of row r.
PredicateHolds(r) ==
    LET m == interrogator.method
        v == Value(r)[1]
        inc == interrogator.inclusive
    IN  CASE m \in COMPARE_ONE_METHODS ->
                CmpHolds(m, v, OperandCell(interrogator.compare, r)[1])
          [] m = "between" ->
                LET lo == OperandCell(interrogator.low, r)[1]
                    hi == OperandCell(interrogator.high, r)[1]
                IN  /\ IF inc[1] THEN v >= lo ELSE v > lo
                    /\ IF inc[2] THEN v <= hi ELSE v < hi
          [] m = "outside" ->
                LET lo == OperandCell(interrogator.low, r)[1]
                    hi == OperandCell(interrogator.high, r)[1]
                IN  \/ IF inc[1] THEN v < lo ELSE v <= lo
                    \/ IF inc[2] THEN v > hi ELSE v >= hi
          [] m = "regex" -> v \in interrogator.pattern

\* The value or an operand of row r is null.
AnyNull(r) ==
    \/ Value(r) = Null
    \/ /\ interrogator.method \in COMPARE_ONE_METHODS
       /\ OperandCell(interrogator.compare, r) = Null
    \/ /\ interrogator.method \in COMPARE_TWO_METHODS
       /\ \/ OperandCell(interrogator.low, r) = Null
          \/ OperandCell(interrogator.high, r) = Null

\* The null-handling policy: a row with a null passes iff na_pass, another
\* row passes iff the comparison holds.
ExpectedGood(r) == IF AnyNull(r) THEN interrogator.na_pass ELSE PredicateHolds(r)

\* C1: for gt, lt, eq, ne, ge, le, between and outside, every value of
\* pb_is_good_ is True or False, never null.
C1_IsGoodNeverNull ==
    interrogator.method \in COMPARE_ONE_METHODS \cup COMPARE_TWO_METHODS
        => \A r \in RowsOfX : IsGood[r] \in {T, F}

\* C2: for every comparison that takes na_pass, a row whose tested value is
\* null is good when na_pass is True and is not good when na_pass is False.
C2_NullValueFollowsNaPass ==
    interrogator.method \in COMPARE_ONE_METHODS \cup COMPARE_TWO_METHODS \cup {"regex"}
        => \A r \in RowsOfX : Value(r) = Null => (Good(r) <=> interrogator.na_pass)

\* C2 witness: outside was called with na_pass True on a column with a null
\* value and a non-null value that fails the test: the null row is good.
C2_Witness ==
    /\ interrogator.method = "outside"
    /\ interrogator.na_pass
    /\ \E r \in RowsOfX : Value(r) = Null /\ Good(r)
    /\ \E r \in RowsOfX : ~AnyNull(r) /\ ~Good(r)

\* C3: gt, lt, eq, ne, ge, le with a literal operand: a row is good iff the
\* value is null and na_pass, or the value is non-null and the comparison holds.
C3_LiteralGoodIff ==
    (interrogator.method \in COMPARE_ONE_METHODS /\ ~interrogator.compare.isColumn)
        => \A r \in RowsOfX : Good(r) <=> ExpectedGood(r)

\* C4: gt, lt, eq, ge, le with a column operand: a row is good iff a side is
\* null and na_pass, or both are non-null and the comparison holds.
C4_ColumnGoodIff ==
    (interrogator.method \in {"gt", "lt", "eq", "ge", "le"} /\ interrogator.compare.isColumn)
        => \A r \in RowsOfX : Good(r) <=> ExpectedGood(r)

\* C4 witness: a column comparison with a row whose operand is null and
\* passes by na_pass, and a row of two non-null cells that passes.
C4_Witness ==
    /\ interrogator.method = "eq"
    /\ interrogator.compare.isColumn
    /\ \E r \in RowsOfX : OperandCell(interrogator.compare, r) = Null /\ Good(r)
    /\ \E r \in RowsOfX : ~AnyNull(r) /\ Good(r)

\* C5: ne between two columns that both contain nulls: a row with a null
\* side is good iff na_pass, another row is good iff the values differ.
C5_NeBothNullsGoodIff ==
    (/\ interrogator.method = "ne"
     /\ interrogator.compare.isColumn
     /\ \E r \in RowsOfX : Value(r) = Null
     /\ \E r \in RowsOfX : OperandCell(interrogator.compare, r) = Null)
        => \A r \in RowsOfX : Good(r) <=> ExpectedGood(r)

\* C6: between and outside, literal or column bounds, every combination of
\* the inclusive flags: a row is good iff a null is involved and na_pass, or
\* no null is involved and the value satisfies the range test.
C6_RangeGoodIff ==
    interrogator.method \in COMPARE_TWO_METHODS
        => \A r \in RowsOfX : Good(r) <=> ExpectedGood(r)

\* C6 witness: between with a closed low bound passes a value equal to the
\* bound, in a call whose bounds are both columns.
C6_Witness ==
    /\ interrogator.method = "between"
    /\ interrogator.inclusive = <<TRUE, FALSE>>
    /\ interrogator.low.isColumn /\ interrogator.high.isColumn
    /\ \E r \in RowsOfX :
        /\ ~AnyNull(r)
        /\ Value(r) = OperandCell(interrogator.low, r)
        /\ Good(r)

\* C7: regex gives a row whose value is null the result na_pass: True when
\* na_pass, False when not, never null.
C7_RegexNullShortCircuit ==
    interrogator.method = "regex"
        => \A r \in RowsOfX : Value(r) = Null => IsGood[r] = Bool3(interrogator.na_pass)

\* The result keeps the rows and the cells of every column of the input and
\* adds the one boolean column pb_is_good_.
FramePreserved ==
    /\ "pb_is_good_" \notin DOMAIN x.cols
    /\ DOMAIN result.cols = DOMAIN x.cols \cup {"pb_is_good_"}
    /\ \A c \in DOMAIN x.cols : result.cols[c] = x.cols[c]
    /\ DOMAIN IsGood = RowsOfX
    /\ \A r \in RowsOfX : IsGood[r] \in {T, F, Null}

\* C8: every Interrogator operation, on every input table, returns the
\* input's rows and columns unchanged plus the one added boolean column
\* pb_is_good_, with no helper column left.
C8_FrameForEveryTable == Called => FramePreserved

\* ----------------------------------------------------- Validate: properties

Steps == DOMAIN validation_info
Returned == pc = "returned"

\* C9: after interrogate() every inactive step has time_processed and
\* proc_duration_s recorded and every other result field null, and neither
\* its pre-processing transform nor its executor was called.
C9_InactiveStepSkipped ==
    Returned =>
        \A k \in Steps :
            LET validation == validation_info[k]
            IN  ~validation.active =>
                    /\ validation.time_processed # Null
                    /\ validation.proc_duration_s # Null
                    /\ \A f \in RESULT_FIELDS \ {"time_processed", "proc_duration_s"} :
                            validation[f] = Null
                    /\ \A j \in DOMAIN calls : calls[j].i # validation.i

\* C9 witness: interrogate() returned on a plan with an inactive step that
\* declares a transform and with an active step that was evaluated.
C9_Witness ==
    /\ Returned
    /\ \E k \in Steps :
        /\ ~validation_info[k].active
        /\ validation_info[k].pre = LambdaInline("dfn")
        /\ validation_info[k].time_processed # Null
    /\ \E k \in Steps :
        /\ validation_info[k].active
        /\ validation_info[k].n # Null

\* C10: an active step that declares a pre-processing transform, a named
\* function or an anonymous function of one argument, is evaluated (test-unit
\* count and predicate) on the table the transform returns.
C10_EvaluatedOnTransformedTable ==
    Returned =>
        \A k \in Steps :
            LET validation == validation_info[k]
                transformed == call(validation.pre.fn, data)
            IN  (validation.active /\ validation.pre # NoPre) =>
                    /\ validation.n = Some(NRows(transformed))
                    /\ validation.tbl_checked = Some(get_test_results(validation, transformed))

Raised == pc = "raised"
Ended == Returned \/ Raised

\* The step has no result: every result field is null.
Pending(validation) == \A f \in RESULT_FIELDS : validation[f] = Null

\* C11: when the evaluation of step k raises, interrogate() ends with the
\* error at step k, the executor of step k was called once, no step after k
\* was executed and every step after k has null result fields, whatever was
\* called on the plan before.
C11_RaiseLeavesLaterStepsPending ==
    Raised =>
        /\ Cardinality({j \in DOMAIN calls :
                            calls[j] = [op |-> "executor", i |-> pos]}) = 1
        /\ \A k \in Steps :
                k > pos =>
                    /\ Pending(validation_info[k])
                    /\ \A j \in DOMAIN calls : calls[j].i # k

\* The step as it was registered: its result fields null.
AsRegistered(validation) ==
    [f \in DOMAIN validation |-> IF f \in RESULT_FIELDS THEN Null ELSE validation[f]]

\* The results of step k are those of one pass of the loop over the step as
\* registered, on the table the plan holds.
FreshResults(k) ==
    \E start_time \in 0..MaxClock, end_time \in 0..MaxClock :
        validation_info[k] =
            interrogate_step(AsRegistered(validation_info[k]), data, start_time, end_time)

\* The step holds a result written by the call of interrogate() that has ended:
\* it was processed, or its evaluation raised after the count of its test units.
HoldsNewResults(k) == k < pos \/ (Raised /\ k = pos)

\* The step holds a result the call that has ended did not write.
HoldsPreviousResults(k) ==
    /\ k >= pos
    /\ \E f \in RESULT_FIELDS : (k > pos \/ f # "n") /\ validation_info[k][f] # Null

\* C12: once a second interrogate() on a plan has ended, by return or by an
\* error, the steps it processed hold the results of a complete evaluation on
\* the plan's table, and no step holds results of the previous run while
\* another holds results of the new run.
C12_RerunReplacesAllResults ==
    (Ended /\ runs >= 2) =>
        /\ \A k \in Steps : k < pos => FreshResults(k)
        /\ ~(\E k \in Steps : HoldsNewResults(k) /\ \E j \in Steps : HoldsPreviousResults(j))

LEVELS == {"warn", "stop", "notify"}

\* The step was evaluated by the call of interrogate() that returned.
Completed(k) == Returned /\ validation_info[k].active

\* The failing test units of the step reach the bound: as a count, or as the
\* fraction n_failed / n (no test units: no failing fraction).
Exceeded(validation, bound) ==
    IF bound.kind = "count"
    THEN validation.n_failed[1] >= bound.num
    ELSE /\ validation.n[1] > 0
         /\ validation.n_failed[1] * bound.den >= bound.num * validation.n[1]

Transformed(validation) ==
    IF validation.pre = NoPre THEN data ELSE call(validation.pre.fn, data)

\* C14: for every completed step n is the number of rows of the table after
\* the step's transform was applied, n is the denominator of f_passed and
\* f_failed, and NumberOfTestUnits returns that number of rows for every
\* table type the executors accept.
C14_TestUnitsOfTransformedTable ==
    \A k \in Steps : Completed(k) =>
        LET validation == validation_info[k]
            rows == NRows(Transformed(validation))
        IN  /\ validation.n = Some(rows)
            /\ rows > 0 => /\ validation.f_passed[1].den = rows
                           /\ validation.f_failed[1].den = rows
            /\ \A tbl_type \in EXECUTOR_TBL_TYPES :
                    get_test_units_of(Transformed(validation), validation.column, tbl_type)
                        = Some(rows)

\* The cells of a column at the rows, in order, whose flag is False.
FailedCells(cells, is_good) ==
    LET taken[i \in 0..Len(cells)] ==
            IF i = 0 THEN <<>>
            ELSE IF is_good[i] = F THEN Append(taken[i - 1], cells[i]) ELSE taken[i - 1]
    IN  taken[Len(cells)]

\* C15: a completed step of a row-based kind stores as extract the rows of the
\* table it was evaluated on whose is_good is False, with the columns of that
\* table and without the is_good column; a completed step of another kind has
\* a null extract.
C15_ExtractIsFailedRows ==
    \A k \in Steps : Completed(k) =>
        LET validation == validation_info[k]
            evaluated == pre_processing(validation, data)
            is_good == validation.tbl_checked[1].cols["pb_is_good_"]
        IN  IF validation.assertion_type \in ROW_BASED_VALIDATION_TYPES
            THEN /\ validation.extract # Null
                 /\ DOMAIN validation.extract[1].cols = DOMAIN evaluated.cols
                 /\ \A c \in DOMAIN evaluated.cols :
                        validation.extract[1].cols[c] = FailedCells(evaluated.cols[c], is_good)
            ELSE validation.extract = Null

\* C15 witness: a completed step on a table of two rows of which one failed:
\* the extract is that row.
C15_Witness ==
    \E k \in Steps :
        /\ Completed(k)
        /\ validation_info[k].n = Some(2)
        /\ validation_info[k].n_failed = Some(1)
        /\ validation_info[k].n_passed = Some(1)
        /\ NRows(validation_info[k].extract[1]) = 1

\* The steps are numbered 1, 2, ... in the order of the list.
IndexedInOrder == \A k \in Steps : validation_info[k].i = k

\* A call on the plan that adds a step leaves the steps before it as they
\* were; a call that keeps the steps keeps their indices.
IndicesStable ==
    /\ Len(validation_info') > Len(validation_info) =>
            /\ Len(validation_info') = Len(validation_info) + 1
            /\ SubSeq(validation_info', 1, Len(validation_info)) = validation_info
    /\ Len(validation_info') = Len(validation_info) =>
            \A k \in Steps : validation_info'[k].i = validation_info[k].i

\* C16: the k-th step of a plan has index k (1-based), so the indices are
\* unique and contiguous; a registration appends one step and leaves the
\* earlier steps unchanged; no later registration and no interrogate()
\* changes the index of a step.
C16_IndicesInOrderAndStable == [](IndexedInOrder) /\ [][IndicesStable]_vars

\* C16 witness: a second step was registered after interrogate() returned for
\* the first one, and interrogate() was called again.
C16_Witness ==
    /\ Len(validation_info) = 2
    /\ runs = 2
    /\ pos = 1
    /\ validation_info[1].n # Null
    /\ validation_info[2].time_processed = Null
    /\ validation_info[2].i = 2

\* The table a completed step was evaluated on: its checked table without
\* the added column.
EvaluatedTable(validation) == drop(validation.tbl_checked[1], {"pb_is_good_"})

\* C17: every completed step was evaluated on the plan's table or on its own
\* transform of it, never on the table another step's transform returned, and
\* no step of interrogate() changes the table the plan refers to.
C17_TransformForItsStepOnly ==
    /\ [](\A k \in Steps : Completed(k) =>
            EvaluatedTable(validation_info[k]) \in {data, Transformed(validation_info[k])})
    /\ [][(pc = "running" \/ pc' = "running") => data' = data]_vars

\* C17 witness: interrogate() returned; the first step was evaluated on what
\* its transform returned, a table with fewer rows, and the second step on the
\* plan's table.
C17_Witness ==
    /\ Returned
    /\ Len(validation_info) = 2
    /\ validation_info[1].active /\ validation_info[2].active
    /\ validation_info[1].pre # NoPre
    /\ EvaluatedTable(validation_info[1]) # data
    /\ validation_info[2].pre = NoPre
    /\ EvaluatedTable(validation_info[2]) = data

\* The thresholds a step is to be evaluated against: col_vals_lt is the
\* registration that gives its own, every other step has the plan's.
EffectiveThresholds(validation) ==
    IF validation.assertion_type = "col_vals_lt"
    THEN CHOOSE t \in {a[1] : a \in StepThresholdArgs} : TRUE
    ELSE thresholds

\* C18: the level flags of a completed step are those of the plan's default
\* thresholds when the step was registered without thresholds of its own, and
\* those of its own thresholds, not of the plan's, when it was registered
\* with them.
C18_EffectiveThresholds ==
    \A k \in Steps : Completed(k) =>
        LET validation == validation_info[k]
        IN  \A level \in LEVELS :
                LET bound == EffectiveThresholds(validation)[level]
                IN  validation[level] =
                        Some(bound # Null /\ Exceeded(validation, bound[1]))

\* C18 witness: on a plan with default thresholds, one of two test units
\* fails in both steps; the step with its own thresholds does not warn, the
\* step without does.
C18_Witness ==
    /\ Returned
    /\ thresholds # NoThresholds
    /\ \E k \in Steps, j \in Steps :
        /\ validation_info[k].assertion_type = "col_vals_lt"
        /\ validation_info[k].n_failed = Some(1)
        /\ validation_info[k].warn = Some(FALSE)
        /\ validation_info[k].notify = Some(TRUE)
        /\ validation_info[j].assertion_type # "col_vals_lt"
        /\ validation_info[j].n_failed = Some(1)
        /\ validation_info[j].warn = Some(TRUE)
        /\ validation_info[j].notify = Some(FALSE)

\* A pass of the loop over a step that an earlier run has processed (the
\* table of the plan is the one of that run: on a changed table the steps
\* raise) stores the counts that run stored.
SameCountsAgain ==
    (/\ pc = "running"
     /\ pos \in Steps
     /\ pos' = pos + 1
     /\ validation_info[pos].time_processed # Null) =>
        /\ validation_info'[pos].n = validation_info[pos].n
        /\ validation_info'[pos].n_passed = validation_info[pos].n_passed
        /\ validation_info'[pos].n_failed = validation_info[pos].n_failed

Requested(i) ==
    IF i = NoArg THEN {validation_info[j].i : j \in DOMAIN validation_info}
    ELSE {i.v[m] : m \in DOMAIN i.v}

\* The mapping returned holds the requested steps of the plan and no other,
\* each with the field of that step the accessor stands for.
AnswerIsStoredFields ==
    answer # Null =>
        LET a == answer[1]
        IN  /\ DOMAIN a.value = Requested(a.i) \cap DOMAIN validation_info
            /\ \A k \in DOMAIN a.value :
                    a.value[k] = validation_info[k][ACCESSORS[a.accessor]]

\* An accessor call leaves the plan, its table and its times as they were, and
\* the same call made again returns the same mapping.
AccessorReadsOnly ==
    answer' # Null =>
        /\ UNCHANGED <<data, thresholds, validation_info, time_start, time_end>>
        /\ answer # Null => answer' = answer

\* C20: each accessor (n, n_passed, n_failed, f_passed, f_failed, warn, stop,
\* notify, get_data_extracts), called with one step index, a list of step
\* indices or no argument, returns the mapping from step index to that step's
\* stored field for exactly the requested steps (all steps without argument),
\* and changes nothing in the plan, however many times it is called.
C20_AccessorsReturnStoredFields ==
    [](AnswerIsStoredFields) /\ [][AccessorReadsOnly]_vars

\* C20 witness: after interrogate() returned on a plan of two steps, n_passed(2)
\* has given the count of the second step alone.
C20_Witness ==
    /\ Returned
    /\ Len(validation_info) = 2
    /\ answer # Null
    /\ answer[1].accessor = "n_passed"
    /\ answer[1].i = IntArg(2)
    /\ DOMAIN answer[1].value = {2}
    /\ answer[1].value[2] = Some(1)

\* The fields a call of get_json_report selects.
SelectedFields(use_fields, exclude_fields) ==
    IF use_fields # Null THEN Elements(use_fields[1])
    ELSE IF exclude_fields # Null
         THEN Elements(VALIDATION_REPORT_FIELDS) \ Elements(exclude_fields[1])
         ELSE Elements(VALIDATION_REPORT_FIELDS)

\* The call with both lists ended in the error without a report; any other
\* call returned one entry per step, the entry of step k at place k, each with
\* the selected fields and no other.
ReportIsSelectedFields ==
    (answer # Null /\ answer[1].accessor = "get_json_report") =>
        LET a == answer[1]
            selected == SelectedFields(a.use_fields, a.exclude_fields)
        IN  IF a.use_fields # Null /\ a.exclude_fields # Null
            THEN a.raised /\ a.value = <<>>
            ELSE /\ ~a.raised
                 /\ DOMAIN a.value = DOMAIN validation_info
                 /\ \A k \in DOMAIN a.value :
                        /\ DOMAIN a.value[k] = selected
                        /\ \A field \in selected \ {"pre"} :
                                a.value[k][field] = validation_info[k][field]

\* A call of get_json_report leaves the plan, its table and its times as they
\* were.
ReportReadsOnly ==
    answer' # Null =>
        UNCHANGED <<data, thresholds, validation_info, time_start, time_end>>

\* C21: get_json_report given both an inclusion and an exclusion list raises
\* an error and produces no report; otherwise it returns one entry per step,
\* in registration order, each with exactly the selected fields (all report
\* fields when neither list is given, only the included ones, or all but the
\* excluded ones), and leaves the plan unchanged.
C21_ReportHoldsSelectedFields ==
    [](ReportIsSelectedFields) /\ [][ReportReadsOnly]_vars

\* C21 witness: on a plan of two steps that interrogate() has run, the report
\* without "pre" and "tbl_checked" was returned, and the call with both lists
\* is the other case.
C21_Witness ==
    /\ Returned
    /\ Len(validation_info) = 2
    /\ answer # Null
    /\ answer[1].accessor = "get_json_report"
    /\ answer[1].use_fields = Null
    /\ answer[1].exclude_fields = Some(<<"pre", "tbl_checked">>)
    /\ Len(answer[1].value) = 2
    /\ "pre" \notin DOMAIN answer[1].value[2]
    /\ answer[1].value[2].i = 2

\* The step passed with no failing test unit: it was evaluated and every row
\* of the table it checked is good.
PassedPerfectly(validation) ==
    /\ validation.tbl_checked # Null
    /\ \A m \in 1..NRows(validation.tbl_checked[1]) :
            validation.tbl_checked[1].cols["pb_is_good_"][m] = T
    /\ validation.n_passed = validation.n

\* C22: after interrogate(), all_passed() returns True if and only if every
\* step of the plan passed with no failing test units, and False otherwise.
C22_AllPassedIffEveryStepPassed ==
    (Returned /\ answer # Null /\ answer[1].accessor = "all_passed") =>
        (answer[1].value <=> \A k \in Steps : PassedPerfectly(validation_info[k]))

\* C22 witness: all_passed() returned True for a plan of two evaluated steps
\* with test units.
C22_Witness ==
    /\ Returned
    /\ answer # Null
    /\ answer[1].accessor = "all_passed"
    /\ answer[1].value
    /\ Len(validation_info) = 2
    /\ \A k \in Steps : validation_info[k].n = Some(MaxRows)

\* all_passed() returned False because of a step with a failing test unit.
C22_WitnessFalse ==
    /\ Returned
    /\ answer # Null
    /\ answer[1].accessor = "all_passed"
    /\ ~answer[1].value
    /\ \E k \in Steps : validation_info[k].n_failed = Some(1)

\* While interrogate() runs, a transition touches the step the loop is at and
\* no other, the loop moves on by one step or not at all, and interrogate()
\* returns only when the loop is past the last step.
ProcessedInOrder ==
    pc = "running" =>
        /\ pos' \in {pos, pos + 1}
        /\ DOMAIN validation_info' = DOMAIN validation_info
        /\ \A k \in Steps : k # pos => validation_info'[k] = validation_info[k]
        /\ pos' = pos + 1 => validation_info'[pos].time_processed # Null
        /\ pc' = "returned" => pos > Len(validation_info)

\* While interrogate() runs, every step before the one the loop is at was
\* completed or skipped in this call.
StartedAfterPredecessors ==
    pc = "running" =>
        \A k \in Steps :
            k < pos => /\ validation_info[k].time_processed # Null
                       /\ validation_info[k].time_processed[1] >= time_start[1]

\* The recorded times of processing do not decrease along the steps.
TimeProcessedNonDecreasing ==
    \A j, k \in Steps :
        (/\ j < k
         /\ validation_info[j].time_processed # Null
         /\ validation_info[k].time_processed # Null) =>
            validation_info[j].time_processed[1] <= validation_info[k].time_processed[1]

\* The order of processing, and the order of the times after a call that
\* returned.
C23_SequentialAndOrderedOnReturn ==
    /\ [](StartedAfterPredecessors)
    /\ [](Returned => TimeProcessedNonDecreasing)
    /\ [][ProcessedInOrder]_vars

AsList(x_arg) == IF x_arg.kind = "list" THEN x_arg.v ELSE <<x_arg.v[1]>>

\* The operand at a position of x: the scalar itself, or the element of the
\* list at that position.
At(operand, m) == IF operand.kind = "scalar" THEN operand.v[1] ELSE operand.v[m]

\* Comparator(x, compare, low, high) fails with the length-mismatch error when
\* a list operand has another length than x; otherwise x is a list and every
\* operand given is a list of the length of x, a scalar in every place.
ConstructedAsDeclared ==
    compared.op = "Comparator" =>
        LET x_list == AsList(compared.args[1])
            operands == [compare |-> compared.args[2], low |-> compared.args[3],
                         high |-> compared.args[4]]
            mismatch == \E f \in DOMAIN operands :
                            /\ operands[f].kind = "list"
                            /\ Len(operands[f].v) # Len(x_list)
        IN  IF mismatch
            THEN compared.raised = "ValueError" /\ ~comparator.made
            ELSE /\ compared.raised = ""
                 /\ comparator.made
                 /\ comparator.x = ListOf(x_list)
                 /\ \A f \in DOMAIN operands :
                        IF operands[f] = NoOperand THEN comparator[f] = NoOperand
                        ELSE /\ comparator[f].kind = "list"
                             /\ Len(comparator[f].v) = Len(x_list)
                             /\ \A m \in 1..Len(x_list) :
                                    comparator[f].v[m] = At(operands[f], m)

\* gt, lt, eq, ne, ge and le on a Comparator with compare return one boolean
\* per position of x, the comparison of x[i] with compare[i].
ComparedPositionwise ==
    (compared.op \in COMPARE_ONE_METHODS /\ comparator.compare # NoOperand) =>
        /\ compared.raised = ""
        /\ Len(compared.value) = Len(comparator.x.v)
        /\ \A m \in 1..Len(comparator.x.v) :
                LET i == comparator.x.v[m]
                    j == comparator.compare.v[m]
                IN  compared.value[m] =
                        CASE compared.op = "gt" -> i > j
                          [] compared.op = "lt" -> j > i
                          [] compared.op = "eq" -> i = j
                          [] compared.op = "ne" -> ~(i = j)
                          [] compared.op = "ge" -> ~(j > i)
                          [] compared.op = "le" -> ~(i > j)

\* A method of the Comparator leaves its fields as they are.
MethodsKeepFields == comparator.made => comparator' = comparator

\* C24: Comparator makes a scalar x a list of one, broadcasts a scalar compare,
\* low or high to the length of x, accepts a list operand only when its length
\* is the length of x and otherwise fails with a length-mismatch error; gt,
\* lt, eq, ne, ge and le then return exactly one boolean per position of x,
\* the comparison of x[i] with compare[i].
C24_ComparatorBroadcastsAndCompares ==
    /\ [](ConstructedAsDeclared /\ ComparedPositionwise)
    /\ [][MethodsKeepFields]_vars

\* C24 witness: on x = [0, 1] with compare 1 in both places, ge() returned
\* [False, True].
C24_Witness ==
    /\ comparator.made
    /\ comparator.x = ListOf(<<0, 1>>)
    /\ comparator.compare = ListOf(<<1, 1>>)
    /\ compared.op = "ge"
    /\ compared.value = <<FALSE, TRUE>>

\* Comparator(x=1, compare=[0, 1]) ended in the length-mismatch error.
C24_WitnessMismatch ==
    /\ compared.op = "Comparator"
    /\ compared.args[1] = Scalar(1)
    /\ compared.args[2] = ListOf(<<0, 1>>)
    /\ compared.raised = "ValueError"
    /\ ~comparator.made

\* The bound is a scalar or a list of the length of x.
FitsX(bound) == bound.kind = "scalar" \/ (bound.kind = "list" /\ Len(bound.v) = Len(comparator.x.v))

\* between(low, high) returns one boolean per position of x, whether x[i] is
\* in [low, high].
BetweenIsContainment ==
    (compared.op = "between" /\ FitsX(compared.args[1]) /\ FitsX(compared.args[2])) =>
        /\ compared.raised = ""
        /\ Len(compared.value) = Len(comparator.x.v)
        /\ \A m \in 1..Len(comparator.x.v) :
                compared.value[m] = (/\ At(compared.args[1], m) <= comparator.x.v[m]
                                     /\ comparator.x.v[m] <= At(compared.args[2], m))

\* outside() on a Comparator with low and high returns one boolean per
\* position of x, whether x[i] is outside [low, high].
OutsideIsNonContainment ==
    (compared.op = "outside" /\ comparator.low # NoOperand /\ comparator.high # NoOperand) =>
        /\ compared.raised = ""
        /\ Len(compared.value) = Len(comparator.x.v)
        /\ \A m \in 1..Len(comparator.x.v) :
                compared.value[m] = (\/ comparator.x.v[m] < comparator.low.v[m]
                                     \/ comparator.x.v[m] > comparator.high.v[m])

\* between(low, high) with two numbers returns one boolean per position of x,
\* whether low <= x[i] <= high.
C25_BetweenOfNumbers ==
    (/\ compared.op = "between"
     /\ compared.args[1].kind = "scalar"
     /\ compared.args[2].kind = "scalar") => BetweenIsContainment

\* C25: between and outside return one boolean per position of x for every x
\* and every low/high given as scalars or lists of the length of x: between
\* tests whether x[i] lies in [low, high] and outside whether it lies outside.
C25_BetweenAndOutsidePositionwise ==
    BetweenIsContainment /\ OutsideIsNonContainment

\* DataScan: properties.

\* Every datetime column of the profile has its statistics under min_date and
\* max_date.
DatetimeStatisticsUnderDateKeys ==
    scan.made =>
        \A idx \in DOMAIN scan.columns :
            scan.columns[idx].stat_kind = "datetime" =>
                {"min_date", "max_date"} \subseteq DOMAIN scan.columns[idx].statistics

\* The profiles of Ibis tables have the datetime statistics under min_date and
\* max_date and get_tabular_report() renders them.
C26_IbisProfilesRender ==
    (scan.made /\ scan.tbl_category = "ibis") =>
        /\ DatetimeStatisticsUnderDateKeys
        /\ report.called => report.raised = ""

\* C26: for every datetime column, the profile built by DataScan (dataframe
\* path and Ibis path alike) carries the datetime statistics under the keys
\* min_date and max_date, so that get_tabular_report() renders every profile
\* DataScan builds without a missing-key error.
C26_DatetimeProfileRenders ==
    /\ DatetimeStatisticsUnderDateKeys
    /\ report.called => (report.raised = "" /\ Len(report.rows) = Len(scan.columns))

\* Interrogator.ne between two columns of which exactly one has nulls.

\* ne() was called on a local table with a column operand, and exactly one of
\* the tested column and the operand column contains nulls.
NeOneNullColumn ==
    /\ interrogator.method = "ne"
    /\ x.native \in NATIVE_LOCAL
    /\ interrogator.compare.isColumn
    /\ column_has_null_values(x, interrogator.column)
            # column_has_null_values(x, interrogator.compare.name)

\* The same on a polars table.
C27_NeOneNullColumnPolars ==
    (NeOneNullColumn /\ x.native = "polars") =>
        \A r \in RowsOfX : Good(r) <=> ExpectedGood(r)

\* C27: for ne between two columns of which exactly one contains nulls (local
\* path, pandas and polars alike, na_pass True or False), a row whose value in
\* the null-containing column is null is good iff na_pass, and every row where
\* both values are non-null is good iff the tested value differs from the
\* other column's value in that row.
C27_NeOneNullColumnGoodIff ==
    NeOneNullColumn => \A r \in RowsOfX : Good(r) <=> ExpectedGood(r)

\* The counts of the step add up.
CountsAddUp(validation) ==
    validation.n_passed[1] + validation.n_failed[1] = validation.n[1]

\* The counts add up for the completed steps whose checked table holds no
\* null in pb_is_good_.
C28_CountsAddUpWithoutNulls ==
    \A k \in Steps :
        (/\ Completed(k)
         /\ \A m \in 1..NRows(validation_info[k].tbl_checked[1]) :
                validation_info[k].tbl_checked[1].cols["pb_is_good_"][m] # Null) =>
            CountsAddUp(validation_info[k])

\* C28: for every completed step, n_passed + n_failed = n: each test unit of
\* the evaluated table is counted exactly once, as passed or as failed,
\* whatever values the is_good column holds.
C28_PassedPlusFailedIsN ==
    \A k \in Steps : Completed(k) => CountsAddUp(validation_info[k])

\* The count fields of a step.
COUNT_FIELDS == {"all_passed", "n", "n_passed", "n_failed", "f_passed", "f_failed"}

\* The count fields of the step are all null or all set.
CountsSetTogether(validation) ==
    \/ \A f \in COUNT_FIELDS : validation[f] = Null
    \/ \A f \in COUNT_FIELDS : validation[f] # Null

\* After a call of interrogate() that returned, the count fields of every
\* step are all null or all set.
C29_CountFieldsSetTogetherOnReturn ==
    Returned => \A k \in Steps : CountsSetTogether(validation_info[k])

\* C29: the count fields of a step are set together: whenever interrogate()
\* has returned or raised, each step has either all of all_passed, n,
\* n_passed, n_failed, f_passed and f_failed null or all of them non-null; a
\* step whose executor raises is not left with only some of them set.
C29_CountFieldsSetTogether ==
    Ended => \A k \in Steps : CountsSetTogether(validation_info[k])

\* The times of the plan are both set, the end not before the start.
RunTimeDefined ==
    /\ time_start # Null
    /\ time_end # Null
    /\ time_end[1] >= time_start[1]

\* After a call of interrogate() that returned, the times of the plan are
\* both set and the end is not before the start.
C30_RunTimeDefinedOnReturn == Returned => RunTimeDefined

\* C30: once interrogate() has been called on a plan, after every call has
\* ended (by return or by an error) time_start and time_end are both set and
\* time_end is not earlier than time_start.
C30_RunTimeDefined == Ended => RunTimeDefined

====
